---- MODULE Spec2Model ----
(***************************************************************************)
(* Design System Analyzer: the three page analyzers (ColorAnalyzer,        *)
(* TypographyAnalyzer, ImageAnalyzer), the content script that runs them   *)
(* and the popup's text report.                                            *)
(*                                                                         *)
(* Text is modelled as a sequence of one-character strings, so that        *)
(* toUpperCase, includes, slice and join are computed and not assumed.     *)
(* A CSS colour value is a record naming its syntax and its components,    *)
(* the parse of the regular expressions of toHex.                          *)
(***************************************************************************)
EXTENDS Integers, Sequences, FiniteSets, TLC

VARIABLES
  colorDoc,     \* what ColorAnalyzer reads of the document
  colorMaps,    \* the five category maps after the two passes of the last analyze()
  colorResult,  \* the list returned by the last ColorAnalyzer.analyze()
  colorDone,    \* TRUE once ColorAnalyzer.analyze() has returned
  typoDoc,      \* what TypographyAnalyzer reads of the document
  typoFonts,    \* what analyzeFontFamilies() returned
  typoHeadings, \* what analyzeHeadings() returned
  typoBody,     \* what analyzeBodyText() returned, or the exception it raised
  typoDone,     \* TRUE once the three parts of TypographyAnalyzer.analyze() have run
  imgDoc,       \* what ImageAnalyzer reads of the document
  imgResult,    \* what ImageAnalyzer.analyze() returned
  imgDone,      \* TRUE once ImageAnalyzer.analyze() has returned
  contentPage,  \* the page the content script runs in, by its number
  analysis,     \* what analyze() of each analyzer returns on that page
  now,          \* Date.now()
  loaded,       \* the analyzer globals that are defined
  requests,     \* the messages received, each with its wait and its responses
  late,         \* the intervals that passed while a timer was due
  popupPage,    \* the page in the active tab while the popup is open
  responses,    \* the responses the popup has received, oldest first
  analysisData, \* the popup's analysisData
  logoContainer, \* the content of the popup's logoContainer
  resultsHidden, \* whether resultsContainer has the class hidden
  errorState,   \* errorState: whether it has the class hidden, and its error text
  loadingHidden, \* whether loadingState has the class hidden
  analyzeBtn,   \* analyzeBtn: whether it is disabled
  running,      \* the calls of handleAnalyze under way, each at the await it stands at
  objectUrls,   \* the object URLs created and not revoked
  reportData,   \* the analysis data handed to generateReport
  report        \* the lines generateReport has produced

colorVars == <<colorDoc, colorMaps, colorResult, colorDone>>
typoVars == <<typoDoc, typoFonts, typoHeadings, typoBody, typoDone>>
imgVars == <<imgDoc, imgResult, imgDone>>
contentVars == <<contentPage, analysis, now, loaded, requests, late>>
popupVars ==
  <<popupPage, responses, analysisData, logoContainer, resultsHidden, errorState,
    loadingHidden, analyzeBtn, running, objectUrls>>
reportVars == <<reportData, report>>
vars == <<colorVars, typoVars, imgVars, contentVars, popupVars, reportVars>>

\* null where a text is expected, and where an object is expected
Null == <<"null">>
NullObject == [null |-> TRUE]

\* the variables of a part that a specification leaves out stay as they are here
ColorUnused ==
  /\ colorDoc = NullObject
  /\ colorMaps = NullObject
  /\ colorResult = <<>>
  /\ colorDone = FALSE

TypoUnused ==
  /\ typoDoc = NullObject
  /\ typoFonts = <<>>
  /\ typoHeadings = NullObject
  /\ typoBody = NullObject
  /\ typoDone = FALSE

ImageUnused ==
  /\ imgDoc = NullObject
  /\ imgResult = NullObject
  /\ imgDone = FALSE

ContentUnused ==
  /\ contentPage = 0
  /\ analysis = NullObject
  /\ now = 0
  /\ loaded = {}
  /\ requests = <<>>
  /\ late = 0

PopupUnused ==
  /\ popupPage = NullObject
  /\ responses = <<>>
  /\ analysisData = NullObject
  /\ logoContainer = <<>>
  /\ resultsHidden = TRUE
  /\ errorState = [hidden |-> TRUE, text |-> <<>>]
  /\ loadingHidden = TRUE
  /\ analyzeBtn = [disabled |-> FALSE]
  /\ running = <<>>
  /\ objectUrls = {}

ReportUnused ==
  /\ reportData = NullObject
  /\ report = <<>>

(***************************************************************************)
(* Text helpers                                                            *)
(***************************************************************************)
Range(s) == {s[i] : i \in 1..Len(s)}

LowerLetters == <<"a","b","c","d","e","f","g","h","i","j","k","l","m",
                  "n","o","p","q","r","s","t","u","v","w","x","y","z">>
UpperLetters == <<"A","B","C","D","E","F","G","H","I","J","K","L","M",
                  "N","O","P","Q","R","S","T","U","V","W","X","Y","Z">>

toUpperCaseChar(c) ==
  IF c \in Range(LowerLetters)
  THEN UpperLetters[CHOOSE i \in 1..26 : LowerLetters[i] = c]
  ELSE c

toLowerCaseChar(c) ==
  IF c \in Range(UpperLetters)
  THEN LowerLetters[CHOOSE i \in 1..26 : UpperLetters[i] = c]
  ELSE c

toUpperCase(s) == [i \in 1..Len(s) |-> toUpperCaseChar(s[i])]
toLowerCase(s) == [i \in 1..Len(s) |-> toLowerCaseChar(s[i])]

\* String.prototype.includes
includes(s, sub) ==
  \E i \in 0..(Len(s) - Len(sub)) : SubSeq(s, i + 1, i + Len(sub)) = sub

\* String.prototype.slice(from, to) with 0 <= from <= to (0-based, end excluded)
slice(s, from, to) ==
  SubSeq(s, from + 1, IF to < Len(s) THEN to ELSE Len(s))

\* Array.prototype.join
RECURSIVE join(_, _)
join(parts, sep) ==
  IF parts = <<>> THEN <<>>
  ELSE IF Len(parts) = 1 THEN parts[1]
  ELSE parts[1] \o sep \o join(Tail(parts), sep)

Max2(a, b) == IF a >= b THEN a ELSE b
Min2(a, b) == IF a <= b THEN a ELSE b

(***************************************************************************)
(* Evaluation order                                                        *)
(***************************************************************************)
\* const name = value; body: the value is computed once, and the body reads
\* the result under the name
Bind(value, body(_)) == CHOOSE r \in {body(v) : v \in {value}} : TRUE

\* items.forEach(item => { acc = step(acc, item) }): the steps run in the
\* order of the items, each on what the step before left. The steps of
\* items[from..to] are run as those of the first half followed by those of
\* the second half.
forEachIn(acc, items, step(_, _)) ==
  LET RECURSIVE loop(_, _, _)
      loop(a, from, to) ==
        IF from > to THEN a
        ELSE IF from = to THEN step(a, items[from])
        ELSE Bind((from + to) \div 2, LAMBDA mid :
             Bind(loop(a, from, mid), LAMBDA b : loop(b, mid + 1, to)))
  IN  loop(acc, 1, Len(items))

forEach(acc, items, step(_, _)) ==
  Bind(<<acc, items>>, LAMBDA s : forEachIn(s[1], s[2], step))

Minimum(S) == CHOOSE x \in S : \A y \in S : x <= y
Maximum(S) == CHOOSE x \in S : \A y \in S : x >= y

\* the characters /\s/ matches
Whitespace == {" ", "\t", "\n"}

\* String.prototype.trim
trim(s) ==
  Bind({i \in 1..Len(s) : s[i] \notin Whitespace}, LAMBDA inked :
    IF inked = {} THEN <<>> ELSE SubSeq(s, Minimum(inked), Maximum(inked)))

\* String.prototype.endsWith
endsWith(s, suffix) ==
  Len(suffix) <= Len(s) /\ SubSeq(s, Len(s) - Len(suffix) + 1, Len(s)) = suffix

(***************************************************************************)
(* Numbers and their text. A number read by parseFloat is the fraction     *)
(* <<num, den>>; NaN is <<NaN, 1>>.                                        *)
(***************************************************************************)
NaN == -1
NotANumber == <<NaN, 1>>
L_NaN == <<"N","a","N">>

DecDigits == <<"0","1","2","3","4","5","6","7","8","9">>

decValue(c) == (CHOOSE i \in 1..10 : DecDigits[i] = c) - 1

\* the number of decimal digits of s from position i on
digitsFrom(s, i) ==
  Cardinality({k \in i..Len(s) : \A j \in i..k : s[j] \in Range(DecDigits)})

digitsValue(s) == forEach(0, s, LAMBDA n, c : 10 * n + decValue(c))

pow10(k) == forEach(1, [i \in 1..k |-> i], LAMBDA p, i : 10 * p)

\* parseFloat of an unsigned decimal followed by anything, such as '19.5px'
parseFloat(s) ==
  Bind(digitsFrom(s, 1), LAMBDA ni :
  Bind(IF ni < Len(s) /\ s[ni + 1] = "." THEN digitsFrom(s, ni + 2) ELSE 0, LAMBDA nf :
    IF ni = 0 /\ nf = 0 THEN NotANumber
    ELSE <<digitsValue(SubSeq(s, 1, ni)) * pow10(nf)
             + digitsValue(SubSeq(s, ni + 2, ni + 1 + nf)),
           pow10(nf)>>))

\* x > 0, false for NaN
isPositive(x) == x[1] > 0

\* Number.prototype.toString of a natural number
RECURSIVE numberToString(_)
numberToString(n) ==
  IF n < 10 THEN <<DecDigits[n + 1]>>
  ELSE numberToString(n \div 10) \o <<DecDigits[(n % 10) + 1]>>

RECURSIVE gcd(_, _)
gcd(a, b) == IF b = 0 THEN a ELSE gcd(b, a % b)

\* the fraction a / b in lowest terms
reduce(a, b) == Bind(gcd(a, b), LAMBDA d : <<a \div d, b \div d>>)

\* Math.round(x) for the fraction x = <<num, den>>, x >= 0
MathRound(x) == (2 * x[1] + x[2]) \div (2 * x[2])

\* the quotients x / y of whole numbers x <= 200 and y <= 100 whose
\* floating-point value lies just below a tie of the second decimal that the
\* exact quotient hits (23 / 40 is 0.57499999999999995559)
QuotientsBelowTie ==
  {<<n, 40>> : n \in {3, 7, 17, 19, 23, 29, 33, 39, 41, 43, 51, 53, 61, 63, 71, 73,
                      81, 87, 91, 97, 101, 107, 111, 117, 121, 127, 131, 137, 141,
                      147, 151, 157, 167, 169, 177, 179, 187, 189, 197, 199}}

\* (x / y).toFixed(2) for the numbers x and y > 0
toFixed2(x, y) ==
  IF x = NotANumber THEN L_NaN
  ELSE Bind(reduce(x[1] * y[2], x[2] * y[1]), LAMBDA q :
       Bind(MathRound(<<100 * q[1], q[2]>>) - (IF q \in QuotientsBelowTie THEN 1 ELSE 0),
            LAMBDA n :
         numberToString(n \div 100)
           \o <<".", DecDigits[((n \div 10) % 10) + 1], DecDigits[(n % 10) + 1]>>))

(***************************************************************************)
(* CSS colour values                                                       *)
(***************************************************************************)
\* rgb(r, g, b) and rgba(r, g, b, a): alpha in percent; commas is FALSE for
\* the space-separated syntax, which the regular expression of toHex rejects.
RGB(r, g, b) == [fmt |-> "rgb", r |-> r, g |-> g, b |-> b, alpha |-> 100, commas |-> TRUE]
RGBA(r, g, b, a) == [fmt |-> "rgb", r |-> r, g |-> g, b |-> b, alpha |-> a, commas |-> TRUE]
RGBSpaces(r, g, b) == [fmt |-> "rgb", r |-> r, g |-> g, b |-> b, alpha |-> 100, commas |-> FALSE]
\* hsl(h, s%, l%)
HSL(h, s, l) == [fmt |-> "hsl", h |-> h, s |-> s, l |-> l]
\* '#' followed by the given characters
HEX(d) == [fmt |-> "hex", digits |-> d]
\* a keyword or a named colour
KW(n) == [fmt |-> "keyword", name |-> n]
\* the empty string
NoValue == [fmt |-> "empty"]

Transparent == RGBA(0, 0, 0, 0)   \* the computed value 'rgba(0, 0, 0, 0)'

\* the absence of a hex (null); every hex toHex builds starts with '#'
NoHex == <<>>

HexDigitsLower == <<"0","1","2","3","4","5","6","7","8","9","a","b","c","d","e","f">>
HexDigitsUpper == <<"0","1","2","3","4","5","6","7","8","9","A","B","C","D","E","F">>

\* Number.prototype.toString(16) of 0..255
toString16(x) ==
  IF x < 16 THEN <<HexDigitsLower[x + 1]>>
  ELSE <<HexDigitsLower[(x \div 16) + 1], HexDigitsLower[(x % 16) + 1]>>

\* x => { hex = x.toString(16); return hex.length === 1 ? '0' + hex : hex }
pad2(x) == LET hex == toString16(x) IN IF Len(hex) = 1 THEN <<"0">> \o hex ELSE hex

(***************************************************************************)
(* ColorAnalyzer.hslToRgb, in exact arithmetic: h in degrees, s and l in   *)
(* percent. Each returned channel (r * 255, g * 255, b * 255) is the       *)
(* fraction <<num, den>>; toHex rounds it with Math.round.                 *)
(***************************************************************************)
\* hue2rgb(p, q, t): p and q in 1/10000, t in degrees; the result in 1/600000
hue2rgb(p, q, t) ==
  LET t1 == IF t < 0 THEN t + 360 ELSE t
      t2 == IF t1 > 360 THEN t1 - 360 ELSE t1
  IN  IF t2 < 60 THEN 60 * p + (q - p) * t2
      ELSE IF t2 < 180 THEN 60 * q
      ELSE IF t2 < 240 THEN 60 * p + (q - p) * (240 - t2)
      ELSE 60 * p

hslToRgb(h, s, l) ==
  IF s = 0
  THEN << <<l * 255, 100>>, <<l * 255, 100>>, <<l * 255, 100>> >>
  ELSE LET q == IF l < 50 THEN l * (100 + s) ELSE 100 * l + 100 * s - l * s
           p == 200 * l - q
       IN  << <<hue2rgb(p, q, h + 120) * 255, 600000>>,
              <<hue2rgb(p, q, h) * 255, 600000>>,
              <<hue2rgb(p, q, h - 120) * 255, 600000>> >>

(***************************************************************************)
(* The canvas round trip of toHex: ctx.fillStyle = color; ctx.fillStyle.   *)
(* A valid colour reads back as '#rrggbb' when opaque and as               *)
(* 'rgba(r, g, b, a)' otherwise; an invalid value is ignored and the       *)
(* context keeps its initial fillStyle '#000000'.                          *)
(***************************************************************************)
NamedColors ==
  [name \in {"red", "white", "rebeccapurple", "transparent"} |->
     CASE name = "red" -> RGB(255, 0, 0)
       [] name = "white" -> RGB(255, 255, 255)
       [] name = "rebeccapurple" -> RGB(102, 51, 153)
       [] name = "transparent" -> Transparent]

canvasFillStyle(color) ==
  LET parsed == IF color.fmt = "rgb" THEN color
                ELSE IF color.fmt = "keyword" /\ color.name \in DOMAIN NamedColors
                     THEN NamedColors[color.name]
                     ELSE RGB(0, 0, 0)
  IN  IF parsed.alpha = 100
      THEN HEX(pad2(parsed.r) \o pad2(parsed.g) \o pad2(parsed.b))
      ELSE RGBA(parsed.r, parsed.g, parsed.b, parsed.alpha)

(***************************************************************************)
(* ColorAnalyzer.toHex                                                     *)
(***************************************************************************)
rgbToHex(c) == toUpperCase(<<"#">> \o pad2(c.r) \o pad2(c.g) \o pad2(c.b))

hexToHex(color) ==
  LET hex == toUpperCase(<<"#">> \o color.digits)
      hex3 == IF Len(hex) = 4
              THEN <<"#", hex[2], hex[2], hex[3], hex[3], hex[4], hex[4]>>
              ELSE hex
  IN  IF Len(hex3) = 9 THEN SubSeq(hex3, 1, 7) ELSE hex3

toHex(color) ==
  IF color.fmt = "empty" THEN NoHex
  ELSE IF color.fmt = "rgb" /\ color.commas THEN rgbToHex(color)
  ELSE IF color.fmt = "hsl"
       THEN LET rgb == hslToRgb(color.h, color.s, color.l)
            IN  toUpperCase(<<"#">> \o pad2(MathRound(rgb[1])) \o pad2(MathRound(rgb[2]))
                                      \o pad2(MathRound(rgb[3])))
  ELSE IF color.fmt = "hex" THEN hexToHex(color)
  ELSE LET computed == canvasFillStyle(color)
       IN  IF computed.fmt = "hex" THEN toUpperCase(<<"#">> \o computed.digits)
           ELSE rgbToHex(computed)

(***************************************************************************)
(* ColorAnalyzer.isValidColor, isNeutral                                   *)
(***************************************************************************)
isValidColor(color) ==
  /\ color.fmt # "empty"
  /\ ~(color.fmt = "keyword" /\ color.name = "transparent")
  /\ ~(color.fmt = "rgb" /\ color = Transparent)
  /\ ~(color.fmt = "keyword" /\ color.name \in {"initial", "inherit"})

hexDigitValue(c) ==
  IF \E i \in 1..16 : HexDigitsUpper[i] = c
  THEN (CHOOSE i \in 1..16 : HexDigitsUpper[i] = c) - 1
  ELSE IF \E i \in 1..16 : HexDigitsLower[i] = c
  THEN (CHOOSE i \in 1..16 : HexDigitsLower[i] = c) - 1
  ELSE NaN

\* parseInt(s, 16) of at most two characters: the leading hex digits, NaN without any
parseInt16(s) ==
  IF s = <<>> \/ hexDigitValue(s[1]) = NaN THEN NaN
  ELSE IF Len(s) = 1 \/ hexDigitValue(s[2]) = NaN THEN hexDigitValue(s[1])
  ELSE 16 * hexDigitValue(s[1]) + hexDigitValue(s[2])

isNeutral(hex) ==
  IF hex = NoHex THEN TRUE
  ELSE LET r == parseInt16(slice(hex, 1, 3))
           g == parseInt16(slice(hex, 3, 5))
           b == parseInt16(slice(hex, 5, 7))
       IN  IF NaN \in {r, g, b} THEN FALSE   \* every comparison with NaN is false
           ELSE LET max == Max2(r, Max2(g, b))
                    min == Min2(r, Min2(g, b))
                IN  IF max = 0 THEN TRUE      \* saturation 0 < 0.1
                    ELSE 10 * (max - min) < max   \* (max - min) / max < 0.1

(***************************************************************************)
(* ColorAnalyzer.categorizeBySelector                                      *)
(***************************************************************************)
T_btn == <<"b","t","n">>
T_button == <<"b","u","t","t","o","n">>
T_primary == <<"p","r","i","m","a","r","y">>
T_link == <<"l","i","n","k">>
T_accent == <<"a","c","c","e","n","t">>

\* mutant of categorizeBySelector: any of the five tokens routes a background
\* colour to primary
categorizeAnyToken(selector, type) ==
  LET sel == toLowerCase(selector)
      token == \/ includes(sel, T_btn) \/ includes(sel, T_button) \/ includes(sel, T_link)
               \/ includes(sel, T_primary) \/ includes(sel, T_accent)
  IN  IF type = "background" THEN IF token THEN "primary" ELSE "background"
      ELSE IF type = "text" THEN IF token THEN "accent" ELSE "foreground"
      ELSE "border"

categorizeBySelector(selector, type) ==
  LET sel == toLowerCase(selector)
  IN  IF type = "background"
      THEN IF includes(sel, T_btn) \/ includes(sel, T_button) \/ includes(sel, T_primary)
           THEN "primary" ELSE "background"
      ELSE IF type = "text"
      THEN IF \/ includes(sel, T_btn) \/ includes(sel, T_button) \/ includes(sel, T_link)
              \/ includes(sel, T_primary) \/ includes(sel, T_accent)
           THEN "accent" ELSE "foreground"
      ELSE "border"

(***************************************************************************)
(* ColorAnalyzer.addColor. A Map is the sequence of its entries in         *)
(* insertion order; an entry's sources is a Set, kept in insertion order.  *)
(***************************************************************************)
EmptyMaps ==
  [background |-> <<>>, foreground |-> <<>>, primary |-> <<>>,
   accent |-> <<>>, border |-> <<>>]

mapHas(map, hex) == \E i \in 1..Len(map) : map[i].hex = hex

setAdd(set, x) == IF x \in Range(set) THEN set ELSE Append(set, x)

addColor(map, hex, source, weight) ==
  IF hex = NoHex THEN map
  ELSE IF mapHas(map, hex)
  THEN [i \in 1..Len(map) |->
          IF map[i].hex = hex
          THEN [map[i] EXCEPT !.weight = @ + weight, !.sources = setAdd(@, source)]
          ELSE map[i]]
  ELSE Append(map, [hex |-> hex, weight |-> weight, sources |-> <<source>>])

\* this.addColor(colors[category], hex, source, weight)
addTo(colors, category, hex, source, weight) ==
  [colors EXCEPT ![category] = addColor(@, hex, source, weight)]

(***************************************************************************)
(* ColorAnalyzer.analyzeStyleSheets                                        *)
(* A style sheet is [access, cssRules]: access "throws" is a cross-origin  *)
(* sheet, whose cssRules getter raises, and "null" a sheet without rules.  *)
(* A rule is [styleRule, throws, selectorText, backgroundColor, color,     *)
(* borderColor, borderTopColor]; throws marks a rule whose inspection      *)
(* raises.                                                                 *)
(***************************************************************************)
DefaultWeight == 1

\* if (value && isValidColor(value)) { const hex = toHex(value);
\*   if (hex) addColor(colors[category], hex, selector) }
addRuleColor(colors, value, category, selector) ==
  IF ~isValidColor(value) THEN colors
  ELSE Bind(toHex(value), LAMBDA hex :
         IF hex = NoHex THEN colors
         ELSE addTo(colors, category, hex, selector, DefaultWeight))

\* the body of the loop over sheet.cssRules for one CSSStyleRule
ruleColors(colors, rule) ==
  LET selector == rule.selectorText
      c1 == addRuleColor(colors, rule.backgroundColor,
                         categorizeBySelector(selector, "background"), selector)
      c2 == addRuleColor(c1, rule.color,
                         categorizeBySelector(selector, "text"), selector)
      borderColor == IF rule.borderColor # NoValue THEN rule.borderColor
                     ELSE rule.borderTopColor
  IN  addRuleColor(c2, borderColor, "border", selector)

\* the rules the loop over sheet.cssRules reaches inside the inner try: a
\* raising rule ends the loop, and the catch keeps what the earlier rules added
rulesReached(rules) ==
  SubSeq(rules, 1, Cardinality({i \in 1..Len(rules) : \A j \in 1..i : ~rules[j].throws}))

sheetRules(colors, rules) ==
  forEach(colors, rulesReached(rules),
          LAMBDA c, rule : IF ~rule.styleRule THEN c ELSE ruleColors(c, rule))

\* the sheets the loop over document.styleSheets reaches inside the outer
\* try: when the enumeration raises, the catch logs 'StyleSheets analysis
\* skipped' and the pass ends with what the earlier sheets added
sheetsReached(sheets) ==
  SubSeq(sheets, 1,
         Cardinality({i \in 1..Len(sheets) : \A j \in 1..i : sheets[j].access # "raises"}))

analyzeStyleSheets(colors, sheets) ==
  forEach(colors, sheetsReached(sheets),
          LAMBDA c, sheet : IF sheet.access # "ok" THEN c
                            ELSE sheetRules(c, sheet.cssRules))

(***************************************************************************)
(* ColorAnalyzer.analyzeKeyElements. The document is given by what the     *)
(* pass queries: body and html (present, with their computed colours) and  *)
(* the element lists of its five querySelectorAll calls, in document       *)
(* order, each element by the computed style the pass reads.               *)
(***************************************************************************)
L_body == <<"b","o","d","y">>
L_html == <<"h","t","m","l">>
L_buttonSrc == <<"b","u","t","t","o","n">>
L_buttonText == <<"b","u","t","t","o","n","-","t","e","x","t">>
L_linkSrc == <<"l","i","n","k">>
L_containerBorder == <<"c","o","n","t","a","i","n","e","r","-","b","o","r","d","e","r">>
L_input == <<"i","n","p","u","t">>
HexWhite == <<"#","F","F","F","F","F","F">>
HexBlack == <<"#","0","0","0","0","0","0">>

BodyAccentWeight == 1000
BodyNeutralWeight == 500
BodyTextWeight == 1000
HtmlWeight == 800
ButtonWeight == 100
ButtonTextWeight == 50
LinkWeight == 80
HeadingWeight == 60
ContainerWeight == 40
ContainerBorderWeight == 30
InputWeight == 20

bodyColors(colors, body) ==
  IF ~body.present THEN colors
  ELSE Bind(toHex(body.backgroundColor), LAMBDA bgHex :
       Bind(toHex(body.color), LAMBDA textHex :
         LET c1 == IF bgHex # NoHex /\ bgHex # HexWhite /\ bgHex # HexBlack
                   THEN addTo(colors, "background", bgHex, L_body, BodyAccentWeight)
                   ELSE IF bgHex # NoHex
                   THEN addTo(colors, "background", bgHex, L_body, BodyNeutralWeight)
                   ELSE colors
         IN  IF textHex # NoHex
             THEN addTo(c1, "foreground", textHex, L_body, BodyTextWeight)
             ELSE c1))

htmlColors(colors, html) ==
  IF ~html.present THEN colors
  ELSE Bind(toHex(html.backgroundColor), LAMBDA bgHex :
         IF bgHex # NoHex /\ isValidColor(html.backgroundColor)
         THEN addTo(colors, "background", bgHex, L_html, HtmlWeight)
         ELSE colors)

\* buttons.forEach(btn => ...)
buttonColors(colors, styles) ==
  Bind(toHex(styles.backgroundColor), LAMBDA bgHex :
  Bind(toHex(styles.color), LAMBDA textHex :
    LET c1 == IF bgHex # NoHex /\ isValidColor(styles.backgroundColor) /\ ~isNeutral(bgHex)
              THEN addTo(colors, "primary", bgHex, L_buttonSrc, ButtonWeight)
              ELSE colors
    IN  IF textHex # NoHex /\ ~isNeutral(textHex)
        THEN addTo(c1, "accent", textHex, L_buttonText, ButtonTextWeight)
        ELSE c1))

\* links.forEach(link => ...) on the Set linkColors, in insertion order
linkColorSet(set, link) ==
  Bind(toHex(link.color), LAMBDA hex :
    IF hex # NoHex /\ ~isNeutral(hex) THEN setAdd(set, hex) ELSE set)

\* linkColors.forEach(hex => ...)
linkColors(colors, hex) == addTo(colors, "accent", hex, L_linkSrc, LinkWeight)

\* headings.forEach(h => ...)
headingColors(colors, h) ==
  Bind(toHex(h.color), LAMBDA hex :
    IF hex # NoHex
    THEN addTo(colors, "foreground", hex, toLowerCase(h.tagName), HeadingWeight)
    ELSE colors)

\* containers.forEach(el => ...)
containerColors(colors, el) ==
  Bind(toHex(el.backgroundColor), LAMBDA bgHex :
  Bind(toHex(el.borderTopColor), LAMBDA borderHex :
    LET c1 == IF bgHex # NoHex /\ isValidColor(el.backgroundColor)
              THEN addTo(colors, "background", bgHex, toLowerCase(el.tagName),
                         ContainerWeight)
              ELSE colors
    IN  IF /\ borderHex # NoHex
           /\ isValidColor(el.borderTopColor)
           /\ isPositive(parseFloat(el.borderTopWidth))
        THEN addTo(c1, "border", borderHex, L_containerBorder, ContainerBorderWeight)
        ELSE c1))

\* inputs.forEach(input => ...)
inputColors(colors, input) ==
  Bind(toHex(input.borderTopColor), LAMBDA borderHex :
    IF borderHex # NoHex /\ isValidColor(input.borderTopColor)
    THEN addTo(colors, "border", borderHex, L_input, InputWeight)
    ELSE colors)

analyzeKeyElements(colors, doc) ==
  LET c1 == bodyColors(colors, doc.body)
      c2 == htmlColors(c1, doc.html)
      c3 == forEach(c2, doc.buttons, buttonColors)
      c4 == forEach(c3, forEach(<<>>, doc.links, linkColorSet), linkColors)
      c5 == forEach(c4, doc.headings, headingColors)
      c6 == forEach(c5, doc.containers, containerColors)
  IN  forEach(c6, doc.inputs, inputColors)

(***************************************************************************)
(* ColorAnalyzer.buildColorPalette                                         *)
(***************************************************************************)
MaxColors == 20
MaxSources == 3
L_commaSpace == <<",", " ">>

\* mutant of categories: Background ranked above Primary
categoriesBackgroundFirst ==
  << [key |-> "background", label |-> "Background"],
     [key |-> "primary", label |-> "Primary"],
     [key |-> "accent", label |-> "Accent"],
     [key |-> "foreground", label |-> "Foreground"],
     [key |-> "border", label |-> "Border"] >>

categories ==
  << [key |-> "primary", label |-> "Primary"],
     [key |-> "accent", label |-> "Accent"],
     [key |-> "background", label |-> "Background"],
     [key |-> "foreground", label |-> "Foreground"],
     [key |-> "border", label |-> "Border"] >>

\* Array.prototype.sort((a, b) => b.weight - a.weight): stable, descending;
\* each item goes behind the items before it that weigh at least as much
insertByWeight(sorted, item) ==
  Bind(Cardinality({i \in 1..Len(sorted) : sorted[i].weight >= item.weight}), LAMBDA k :
    SubSeq(sorted, 1, k) \o <<item>> \o SubSeq(sorted, k + 1, Len(sorted)))

\* mutant of sortByWeight: the items stay in insertion order
sortKeepOrder(items) == items

sortByWeight(items) == forEach(<<>>, items, insertByWeight)

paletteRecord(item, label) ==
  [hex |-> item.hex, category |-> label, weight |-> item.weight,
   sources |-> join(SubSeq(item.sources, 1, Min2(MaxSources, Len(item.sources))),
                    L_commaSpace)]

\* mutant of emitItem: the seen set is not consulted
emitItemNoSeen(acc, item, label) ==
  [result |-> Append(acc.result, paletteRecord(item, label)),
   seen |-> acc.seen \cup {item.hex}]

\* the body of sorted.forEach(item => ...) on acc = [result, seen]
emitItem(acc, item, label) ==
  IF item.hex \in acc.seen THEN acc
  ELSE [result |-> Append(acc.result, paletteRecord(item, label)),
        seen |-> acc.seen \cup {item.hex}]

\* the body of categories.forEach(({ key, label }) => ...)
emitCategory(acc, colors, cat) ==
  forEach(acc, sortByWeight(colors[cat.key]),
          LAMBDA a, item : emitItem(a, item, cat.label))

emitCategories(colors) ==
  forEach([result |-> <<>>, seen |-> {}], categories,
          LAMBDA acc, cat : emitCategory(acc, colors, cat)).result

\* mutant of buildColorPalette: the result is not cut to 20 records
buildColorPaletteNoSlice(colors) == emitCategories(colors)

buildColorPalette(colors) ==
  Bind(emitCategories(colors), LAMBDA result :
    SubSeq(result, 1, Min2(MaxColors, Len(result))))

(***************************************************************************)
(* ColorAnalyzer.analyze                                                   *)
(***************************************************************************)
collectColors(doc) ==
  analyzeKeyElements(analyzeStyleSheets(EmptyMaps, doc.styleSheets), doc)

ColorAnalyzer_analyze(doc) == buildColorPalette(collectColors(doc))

(***************************************************************************)
(* The documents ColorAnalyzer is run on: nS style sheets, nB buttons,     *)
(* nL links, nH headings, nC containers and nI inputs, the i-th of each    *)
(* kind taken from the families below, with one of the body and one of     *)
(* the html variants. Computed styles are rgb()/rgba() values; the rules   *)
(* of the style sheets carry every syntax toHex reads.                     *)
(***************************************************************************)
MaxSheets == 4
MaxButtons == 14
MaxLinks == 1
MaxHeadings == 1
MaxContainers == 1
MaxInputs == 1

Rule(selector, bg, color, border, borderTop) ==
  [styleRule |-> TRUE, throws |-> FALSE, selectorText |-> selector,
   backgroundColor |-> bg, color |-> color, borderColor |-> border,
   borderTopColor |-> borderTop]

Sel_btnPrimary == <<".","b","t","n","-","p","r","i","m","a","r","y">>
Sel_aLink == <<"a",".","l","i","n","k">>
Sel_body == <<"b","o","d","y">>
Sel_card == <<".","c","a","r","d">>
Sel_Accent == <<".","A","c","c","e","n","t">>
Sel_late == <<".","l","a","t","e">>
Sel_media == <<>>

SheetA ==
  [access |-> "ok",
   cssRules |-> <<
     Rule(Sel_btnPrimary, HEX(<<"3","6","f">>), KW("white"), NoValue, NoValue),
     Rule(Sel_aLink, HEX(<<"3","3","6","6","f","f","8","0">>), HSL(0, 100, 50),
          NoValue, NoValue),
     [Rule(Sel_media, NoValue, NoValue, NoValue, NoValue) EXCEPT !.styleRule = FALSE],
     Rule(Sel_body, KW("white"), HEX(<<"2","2","2","2","2","2">>), NoValue,
          RGBSpaces(0, 128, 0)),
     Rule(Sel_card, KW("transparent"), KW("inherit"), RGB(221, 221, 221), NoValue) >>]

SheetCrossOrigin == [access |-> "throws", cssRules |-> <<>>]

SheetC ==
  [access |-> "ok",
   cssRules |-> <<
     Rule(Sel_Accent, HEX(<<"a","b","c","d">>), KW("red"), Transparent, NoValue),
     [Rule(Sel_late, NoValue, NoValue, NoValue, NoValue) EXCEPT !.throws = TRUE],
     Rule(Sel_late, RGB(1, 2, 3), RGB(4, 5, 6), KW("initial"), NoValue) >>]

SheetNoRules == [access |-> "null", cssRules |-> <<>>]

\* the place in document.styleSheets where its enumeration raises
SheetRaises == [access |-> "raises", cssRules |-> <<>>]

SheetAt(i) ==
  CASE i % 4 = 1 -> SheetA
    [] i % 4 = 2 -> SheetCrossOrigin
    [] i % 4 = 3 -> SheetC
    [] OTHER -> SheetNoRules

\* every fourth button is transparent, every third has white text, the
\* fifth repeats the background of the first
ButtonAt(i) ==
  [backgroundColor |-> IF i % 4 = 0 THEN Transparent
                       ELSE RGB(51, 102, 255 - (IF i = 5 THEN 1 ELSE i)),
   color |-> IF i % 3 = 0 THEN RGB(255, 255, 255) ELSE RGB(204, 10 * i, 0)]

\* the first link has the text colour of the first button
LinkAt(i) == [color |-> IF i = 1 THEN RGB(204, 10, 0) ELSE RGB(0, 0, 240 - i)]

\* the first heading has the background colour of the first button
H_tag(i) == <<"H", HexDigitsUpper[(i % 6) + 2]>>
HeadingAt(i) ==
  [tagName |-> H_tag(i - 1),
   color |-> IF i = 1 THEN RGB(51, 102, 254) ELSE RGB(34, 34, 32 + i)]

Tag_MAIN == <<"M","A","I","N">>
Tag_HEADER == <<"H","E","A","D","E","R">>

\* the first container has the background of the first button and a border
ContainerAt(i) ==
  IF i % 2 = 1
  THEN [tagName |-> Tag_MAIN, backgroundColor |-> RGB(51, 102, 255 - i),
        borderTopColor |-> RGB(221, 221, 221), borderTopWidth |-> <<"1","p","x">>]
  ELSE [tagName |-> Tag_HEADER, backgroundColor |-> Transparent,
        borderTopColor |-> RGB(34, 34, 34), borderTopWidth |-> <<"0","p","x">>]

\* the first input has the border colour of the first container
InputAt(i) ==
  [borderTopColor |-> IF i = 1 THEN RGB(221, 221, 221) ELSE RGB(34, 34, 32 + i)]

BodyVariants ==
  << [present |-> FALSE, backgroundColor |-> NoValue, color |-> NoValue],
     [present |-> TRUE, backgroundColor |-> Transparent, color |-> RGB(0, 0, 0)],
     [present |-> TRUE, backgroundColor |-> RGB(255, 255, 255), color |-> RGB(34, 34, 34)],
     [present |-> TRUE, backgroundColor |-> RGB(250, 245, 230), color |-> RGB(51, 102, 254)] >>

HtmlVariants ==
  << [present |-> TRUE, backgroundColor |-> Transparent],
     [present |-> TRUE, backgroundColor |-> RGB(255, 255, 255)] >>

ColorDocument(nS, nB, nL, nH, nC, nI, body, html) ==
  [styleSheets |-> [i \in 1..nS |-> SheetAt(i)],
   body |-> body,
   html |-> html,
   buttons |-> [i \in 1..nB |-> ButtonAt(i)],
   links |-> [i \in 1..nL |-> LinkAt(i)],
   headings |-> [i \in 1..nH |-> HeadingAt(i)],
   containers |-> [i \in 1..nC |-> ContainerAt(i)],
   inputs |-> [i \in 1..nI |-> InputAt(i)]]

\* the html variant that goes with the k-th body variant
HtmlFor(k) == HtmlVariants[(k % Len(HtmlVariants)) + 1]

\* few buttons, every combination of the other elements
VarietyDocs ==
  { ColorDocument(nS, nB, nL, nH, nC, nI, BodyVariants[k], HtmlFor(k)) :
      nS \in 0..MaxSheets, nB \in 0..Min2(2, MaxButtons), nL \in 0..MaxLinks,
      nH \in 0..MaxHeadings, nC \in 0..MaxContainers, nI \in 0..MaxInputs,
      k \in 1..Len(BodyVariants) }

\* many buttons: more distinct colours than the palette keeps
ManyColorDocs ==
  { ColorDocument(nS, nB, MaxLinks, MaxHeadings, MaxContainers, MaxInputs,
                  BodyVariants[k], HtmlFor(k)) :
      nS \in {0, MaxSheets}, nB \in 0..MaxButtons, k \in 1..Len(BodyVariants) }

ColorDocs == VarietyDocs \cup ManyColorDocs

EmptyColorDoc ==
  ColorDocument(0, 0, 0, 0, 0, 0, BodyVariants[1], HtmlVariants[1])

(***************************************************************************)
(* SpecColor: ColorAnalyzer.analyze() run once on any of the documents     *)
(***************************************************************************)
ColorIdle ==
  /\ colorMaps = EmptyMaps
  /\ colorResult = <<>>
  /\ colorDone = FALSE

InitColor ==
  /\ colorDoc \in ColorDocs
  /\ ColorIdle
  /\ TypoUnused
  /\ ImageUnused
  /\ ContentUnused
  /\ PopupUnused
  /\ ReportUnused

AnalyzeColors ==
  /\ ~colorDone
  /\ colorMaps' = collectColors(colorDoc)
  /\ colorResult' = buildColorPalette(colorMaps')
  /\ colorDone' = TRUE
  /\ UNCHANGED <<colorDoc, typoVars, imgVars, contentVars, popupVars, reportVars>>

NextColor == AnalyzeColors

SpecColor == InitColor /\ [][NextColor]_vars

(***************************************************************************)
(* Claims on ColorAnalyzer.analyze()                                       *)
(***************************************************************************)
CategoryKeys == {"primary", "accent", "background", "foreground", "border"}

\* the hexes collected into the category map of key
HexesOf(maps, key) == {maps[key][i].hex : i \in 1..Len(maps[key])}
CollectedHexes(maps) == UNION {HexesOf(maps, key) : key \in CategoryKeys}

\* the positions of the output that carry hex
Emitted(result, hex) == {i \in 1..Len(result) : result[i].hex = hex}

\* C1: the list returned by analyze() contains no hex value twice
C1_NoHexTwice ==
  colorDone =>
    \A i, j \in 1..Len(colorResult) :
      colorResult[i].hex = colorResult[j].hex => i = j

\* a hex collected under two categories has been emitted
C1_Witness ==
  /\ colorDone
  /\ \E hex \in HexesOf(colorMaps, "primary") \cap HexesOf(colorMaps, "foreground") :
       /\ hex \in HexesOf(colorMaps, "background")
       /\ Emitted(colorResult, hex) # {}

IsHexColor(hex) ==
  /\ Len(hex) = 7
  /\ hex[1] = "#"
  /\ \A i \in 2..7 : hex[i] \in Range(HexDigitsUpper)

\* C2: every record returned by analyze() has a hex made of '#' and exactly
\* six uppercase hexadecimal digits, for every colour syntax toHex reads
C2_HexWellFormed ==
  colorDone => \A i \in 1..Len(colorResult) : IsHexColor(colorResult[i].hex)

\* the label of the highest-priority category, in the order
\* Primary > Accent > Background > Foreground > Border, that collected hex
HighestLabel(maps, hex) ==
  IF hex \in HexesOf(maps, "primary") THEN "Primary"
  ELSE IF hex \in HexesOf(maps, "accent") THEN "Accent"
  ELSE IF hex \in HexesOf(maps, "background") THEN "Background"
  ELSE IF hex \in HexesOf(maps, "foreground") THEN "Foreground"
  ELSE "Border"

InSeveralMaps(maps, hex) ==
  Cardinality({key \in CategoryKeys : hex \in HexesOf(maps, key)}) >= 2

\* C3 as stated: a hex collected into several category maps is emitted
\* exactly once, labelled with the highest-priority category that holds it
C3_ExactlyOnceHighest ==
  colorDone =>
    \A hex \in CollectedHexes(colorMaps) :
      InSeveralMaps(colorMaps, hex) =>
        /\ Cardinality(Emitted(colorResult, hex)) = 1
        /\ \A i \in Emitted(colorResult, hex) :
             colorResult[i].category = HighestLabel(colorMaps, hex)

\* C3 amended: a hex collected into several category maps is emitted at most
\* once and only under the highest-priority category that holds it; it is
\* emitted exactly once whenever at most 20 distinct hexes were collected
C3_AtMostOnceHighest ==
  colorDone =>
    \A hex \in CollectedHexes(colorMaps) :
      InSeveralMaps(colorMaps, hex) =>
        /\ Cardinality(Emitted(colorResult, hex)) <= 1
        /\ \A i \in Emitted(colorResult, hex) :
             colorResult[i].category = HighestLabel(colorMaps, hex)
        /\ Cardinality(CollectedHexes(colorMaps)) <= 20 =>
             Cardinality(Emitted(colorResult, hex)) = 1

\* a hex collected as Primary and as Background is emitted, tagged Primary
C3_Witness ==
  /\ colorDone
  /\ \E hex \in HexesOf(colorMaps, "primary") \cap HexesOf(colorMaps, "background") :
       \E i \in 1..Len(colorResult) :
         colorResult[i].hex = hex /\ colorResult[i].category = "Primary"

\* C4: analyze() never returns more than 20 records
C4_AtMostTwenty == colorDone => Len(colorResult) <= 20

\* more than 20 distinct colours were collected and 20 are returned
C4_Witness ==
  /\ colorDone
  /\ Cardinality(CollectedHexes(colorMaps)) > 20
  /\ Len(colorResult) = 20

\* the style rules of the readable sheets: all of them, and those the pass
\* reaches
StyleRules(doc) ==
  UNION {{sheet.cssRules[r] : r \in {r \in 1..Len(sheet.cssRules) :
                                      /\ sheet.cssRules[r].styleRule
                                      /\ ~sheet.cssRules[r].throws}} :
           sheet \in {doc.styleSheets[i] : i \in {i \in 1..Len(doc.styleSheets) :
                                                   doc.styleSheets[i].access = "ok"}}}

ReachedRules(doc) ==
  UNION {{rule \in Range(rulesReached(sheet.cssRules)) : rule.styleRule} :
           sheet \in {doc.styleSheets[i] : i \in {i \in 1..Len(doc.styleSheets) :
                                                   doc.styleSheets[i].access = "ok"}}}

\* the value of a rule is in the category map of key, with the rule's
\* selector as a source, unless it is no colour that is collected
Routed(maps, key, value, selector) ==
  (isValidColor(value) /\ toHex(value) # NoHex) =>
    \E i \in 1..Len(maps[key]) :
      /\ maps[key][i].hex = toHex(value)
      /\ selector \in Range(maps[key][i].sources)

HasToken(selector, tokens) ==
  \E token \in tokens : includes(toLowerCase(selector), token)

borderValue(rule) ==
  IF rule.borderColor # NoValue THEN rule.borderColor ELSE rule.borderTopColor

\* C19, as stated: a rule whose selector contains btn, button, primary, link
\* or accent, in any case, has its background-color in Primary and its
\* color in Accent; any other rule has them in Background and Foreground;
\* the border colour is in Border
C19_AnyTokenRouting ==
  colorDone =>
    \A rule \in ReachedRules(colorDoc) :
      LET token == HasToken(rule.selectorText, {T_btn, T_button, T_primary, T_link, T_accent})
      IN  /\ Routed(colorMaps, IF token THEN "primary" ELSE "background",
                    rule.backgroundColor, rule.selectorText)
          /\ Routed(colorMaps, IF token THEN "accent" ELSE "foreground",
                    rule.color, rule.selectorText)
          /\ Routed(colorMaps, "border", borderValue(rule), rule.selectorText)

\* C19 amended: the background-color of a rule is in Primary when the
\* selector contains btn, button or primary, and in Background otherwise;
\* its color is in Accent when the selector contains btn, button, link,
\* primary or accent, and in Foreground otherwise; the border colour is in
\* Border. The tokens are found in any case.
C19_Routing ==
  colorDone =>
    \A rule \in ReachedRules(colorDoc) :
      /\ Routed(colorMaps,
                IF HasToken(rule.selectorText, {T_btn, T_button, T_primary})
                THEN "primary" ELSE "background",
                rule.backgroundColor, rule.selectorText)
      /\ ~(\E i \in 1..Len(colorMaps.primary) :
             /\ rule.selectorText \in Range(colorMaps.primary[i].sources)
             /\ ~HasToken(rule.selectorText, {T_btn, T_button, T_primary}))
      /\ Routed(colorMaps,
                IF HasToken(rule.selectorText,
                            {T_btn, T_button, T_link, T_primary, T_accent})
                THEN "accent" ELSE "foreground",
                rule.color, rule.selectorText)
      /\ Routed(colorMaps, "border", borderValue(rule), rule.selectorText)

\* the rule a.link has put its background into Background and its colour
\* into Accent, and the rule .Accent likewise
C19_Witness ==
  /\ colorDone
  /\ \E rule \in ReachedRules(colorDoc) :
       /\ rule.selectorText = Sel_aLink
       /\ toHex(rule.backgroundColor) # NoHex
       /\ \E i \in 1..Len(colorMaps.background) :
            /\ colorMaps.background[i].hex = toHex(rule.backgroundColor)
            /\ Sel_aLink \in Range(colorMaps.background[i].sources)
       /\ \E i \in 1..Len(colorMaps.accent) :
            /\ colorMaps.accent[i].hex = toHex(rule.color)
            /\ Sel_aLink \in Range(colorMaps.accent[i].sources)
  /\ \E rule \in ReachedRules(colorDoc) :
       /\ rule.selectorText = Sel_Accent
       /\ \E i \in 1..Len(colorMaps.accent) :
            Sel_Accent \in Range(colorMaps.accent[i].sources)

\* C20: an unreadable style sheet, or a rule whose inspection fails, is
\* skipped and nothing else: every other style rule of every readable sheet,
\* the later rules of the same sheet and the rules of the later sheets
\* included, has its colours in the maps.
C20_OtherRulesContribute ==
  colorDone =>
    \A rule \in StyleRules(colorDoc) :
      /\ Routed(colorMaps, categorizeBySelector(rule.selectorText, "background"),
                rule.backgroundColor, rule.selectorText)
      /\ Routed(colorMaps, categorizeBySelector(rule.selectorText, "text"),
                rule.color, rule.selectorText)
      /\ Routed(colorMaps, "border", borderValue(rule), rule.selectorText)

\* the value is 'transparent' or an rgba() with alpha 0
IsTransparent(value) ==
  \/ value.fmt = "keyword" /\ value.name = "transparent"
  \/ value.fmt = "rgb" /\ value.alpha = 0

\* the value, or the empty string in place of a transparent one
Opaque(value) == IF IsTransparent(value) THEN NoValue ELSE value

\* the document with every transparent colour taken out: of the rules, of
\* body and html and of the sampled elements; a rule with a transparent
\* border-color has no border colour at all
WithoutTransparent(doc) ==
  [styleSheets |->
     [i \in 1..Len(doc.styleSheets) |->
        [doc.styleSheets[i] EXCEPT !.cssRules =
           [r \in 1..Len(@) |->
              [@[r] EXCEPT !.backgroundColor = Opaque(@),
                           !.color = Opaque(@),
                           !.borderColor = Opaque(@),
                           !.borderTopColor =
                              IF IsTransparent(doc.styleSheets[i].cssRules[r].borderColor)
                              THEN NoValue ELSE Opaque(@)]]]],
   body |-> [doc.body EXCEPT !.backgroundColor = Opaque(@), !.color = Opaque(@)],
   html |-> [doc.html EXCEPT !.backgroundColor = Opaque(@)],
   buttons |-> [i \in 1..Len(doc.buttons) |->
                  [doc.buttons[i] EXCEPT !.backgroundColor = Opaque(@), !.color = Opaque(@)]],
   links |-> [i \in 1..Len(doc.links) |-> [doc.links[i] EXCEPT !.color = Opaque(@)]],
   headings |-> [i \in 1..Len(doc.headings) |-> [doc.headings[i] EXCEPT !.color = Opaque(@)]],
   containers |-> [i \in 1..Len(doc.containers) |->
                     [doc.containers[i] EXCEPT !.backgroundColor = Opaque(@),
                                               !.borderTopColor = Opaque(@)]],
   inputs |-> [i \in 1..Len(doc.inputs) |->
                 [doc.inputs[i] EXCEPT !.borderTopColor = Opaque(@)]]]

\* C21: a transparent colour is never converted: in the stylesheet pass and
\* in the key-element pass a value that is 'transparent' or an rgba() with
\* alpha 0 adds nothing to any category map, whatever element it is read
\* from; the maps are those of the document without its transparent values.
C21_TransparentAddsNothing ==
  colorDone => colorMaps = collectColors(WithoutTransparent(colorDoc))

\* the key of the category map behind a label of the output
keyOfLabel(label) ==
  (CHOOSE cat \in Range(categories) : cat.label = label).key

\* the entries of a category map that hold hex
EntriesOf(map, hex) == {k \in 1..Len(map) : map[k].hex = hex}

\* C23: within each category of the output the records stand in
\* non-increasing order of weight, and the weight of a record is the one
\* accumulated for its hex in that category: the hex has a single entry in
\* the category's map, which carries the record's weight, and no second one
C23_SortedByWeight ==
  colorDone =>
    /\ \A i, j \in 1..Len(colorResult) :
         (i < j /\ colorResult[i].category = colorResult[j].category) =>
           colorResult[i].weight >= colorResult[j].weight
    /\ \A i \in 1..Len(colorResult) :
         LET map == colorMaps[keyOfLabel(colorResult[i].category)]
         IN  /\ Cardinality(EntriesOf(map, colorResult[i].hex)) = 1
             /\ \A k \in EntriesOf(map, colorResult[i].hex) :
                  map[k].weight = colorResult[i].weight

\* a category map in which a later entry outweighs an earlier one, its
\* heavier hex added from two sources, and both emitted in weight order
C23_Witness ==
  /\ colorDone
  /\ \E key \in CategoryKeys :
       \E a, b \in 1..Len(colorMaps[key]) :
         /\ a < b
         /\ colorMaps[key][a].weight < colorMaps[key][b].weight
         /\ Len(colorMaps[key][b].sources) >= 2
         /\ \E i, j \in 1..Len(colorResult) :
              /\ i < j
              /\ colorResult[i].hex = colorMaps[key][b].hex
              /\ colorResult[j].hex = colorMaps[key][a].hex
              /\ keyOfLabel(colorResult[i].category) = key
              /\ keyOfLabel(colorResult[j].category) = key

(***************************************************************************)
(* TypographyAnalyzer. The document is the list of its elements in         *)
(* document order (what querySelectorAll('*') returns); an element is      *)
(* [tag, classes, textContent, directText, style], directText telling      *)
(* whether one of its child nodes is a non-blank text node, and style the  *)
(* computed [fontFamily, fontSize, fontWeight, lineHeight, color], the     *)
(* first four as text.                                                     *)
(***************************************************************************)
L_quote == "\""
L_apostrophe == "'"

\* String.prototype.split(sep), sep one character
split(s, sep) ==
  forEach(<< <<>> >>, s,
          LAMBDA parts, c : IF c = sep THEN Append(parts, <<>>)
                            ELSE [parts EXCEPT ![Len(parts)] = Append(@, c)])

\* String.prototype.replace(/["']/g, '')
removeQuotes(s) == SelectSeq(s, LAMBDA c : c \notin {L_quote, L_apostrophe})

systemFonts ==
  << <<"s","y","s","t","e","m","-","u","i">>,
     <<"-","a","p","p","l","e","-","s","y","s","t","e","m">>,
     <<"B","l","i","n","k","M","a","c","S","y","s","t","e","m","F","o","n","t">>,
     <<"S","e","g","o","e"," ","U","I">>,
     <<"s","a","n","s","-","s","e","r","i","f">>,
     <<"s","e","r","i","f">>,
     <<"m","o","n","o","s","p","a","c","e">> >>

cleanFontFamily(fontFamily) ==
  IF fontFamily = Null \/ fontFamily = <<>> THEN Null
  ELSE Bind(split(fontFamily, ","), LAMBDA fonts :
       Bind(removeQuotes(trim(fonts[1])), LAMBDA primaryFont :
         IF primaryFont \in Range(systemFonts) /\ Len(fonts) > 1
         THEN removeQuotes(trim(fonts[2]))
         ELSE primaryFont))

L_normal == <<"n","o","r","m","a","l">>
L_px == <<"p","x">>
L_defaultLineHeight == <<"1",".","2">>

\* mutant of normalizeLineHeight: a px value is passed through
normalizeKeepPx(lineHeight, fontSize) ==
  IF lineHeight = L_normal THEN L_defaultLineHeight ELSE lineHeight

normalizeLineHeight(lineHeight, fontSize) ==
  IF lineHeight = L_normal THEN L_defaultLineHeight
  ELSE IF endsWith(lineHeight, L_px) /\ isPositive(parseFloat(fontSize))
       THEN toFixed2(parseFloat(lineHeight), parseFloat(fontSize))
       ELSE lineHeight

hasTextContent(element) ==
  element.textContent # <<>> /\ Len(trim(element.textContent)) > 0

hasDirectTextContent(element) == element.directText

\* String.prototype.replace(/\s+/g, ' ')
collapseWhitespace(s) ==
  forEach([out |-> <<>>, inSpace |-> FALSE], s,
          LAMBDA acc, c :
            IF c \in Whitespace
            THEN IF acc.inSpace THEN acc
                 ELSE [out |-> Append(acc.out, " "), inSpace |-> TRUE]
            ELSE [out |-> Append(acc.out, c), inSpace |-> FALSE]).out

L_ellipsis == <<".",".",".">>

getSampleText(element, maxLength) ==
  Bind(collapseWhitespace(trim(element.textContent)), LAMBDA text :
    IF Len(text) > maxLength
    THEN SubSeq(text, 1, maxLength - 3) \o L_ellipsis
    ELSE text)

\* the text of a colour value that TypographyAnalyzer.toHex returns as it is:
\* an rgb() without commas, or a value [fmt |-> "other", text] given by its text
cssText(color) ==
  IF color.fmt = "rgb"
  THEN <<"r","g","b","(">> \o numberToString(color.r) \o <<" ">>
         \o numberToString(color.g) \o <<" ">> \o numberToString(color.b) \o <<")">>
  ELSE color.text

TypographyAnalyzer_toHex(color) ==
  IF color.fmt = "rgb" /\ color.commas
  THEN toUpperCase(<<"#">> \o pad2(color.r) \o pad2(color.g) \o pad2(color.b))
  ELSE IF color.fmt = "hex" THEN toUpperCase(<<"#">> \o color.digits)
  ELSE cssText(color)

(***************************************************************************)
(* TypographyAnalyzer.analyzeFontFamilies                                  *)
(***************************************************************************)
MaxFonts == 10

\* fontMap.set(fontFamily, fontMap.has(fontFamily) ? fontMap.get(fontFamily) + 1 : 1)
\* on the Map as the sequence of its entries in insertion order
countFont(fontMap, fontFamily) ==
  IF \E i \in 1..Len(fontMap) : fontMap[i].name = fontFamily
  THEN [i \in 1..Len(fontMap) |->
          IF fontMap[i].name = fontFamily
          THEN [fontMap[i] EXCEPT !.count = @ + 1]
          ELSE fontMap[i]]
  ELSE Append(fontMap, [name |-> fontFamily, count |-> 1])

\* the body of elements.forEach(element => ...) on acc = [fontMap, totalElements]
countElement(acc, element) ==
  IF ~hasTextContent(element) THEN acc
  ELSE Bind(cleanFontFamily(element.style.fontFamily), LAMBDA fontFamily :
         IF fontFamily = Null \/ fontFamily = <<>> THEN acc
         ELSE [fontMap |-> countFont(acc.fontMap, fontFamily),
               totalElements |-> acc.totalElements + 1])

\* count / totalElements at which the floating-point product with 100 falls
\* just below a tie that the exact product hits (23 / 40 * 100 is
\* 57.49999999999999), for totalElements up to 400
TiesRoundedDown == {<<23, 40>>, <<29, 200>>, <<57, 200>>, <<113, 200>>}

\* Math.round((count / totalElements) * 100)
usagePercent(count, totalElements) ==
  IF reduce(count, totalElements) \in TiesRoundedDown
  THEN MathRound(<<100 * count, totalElements>>) - 1
  ELSE MathRound(<<100 * count, totalElements>>)

\* mutant of insertByUsage: the item is put last
insertByUsageLast(sorted, item) == Append(sorted, item)

\* Array.prototype.sort((a, b) => b.usage - a.usage): stable, descending
insertByUsage(sorted, item) ==
  Bind(Cardinality({i \in 1..Len(sorted) : sorted[i].usage >= item.usage}), LAMBDA k :
    SubSeq(sorted, 1, k) \o <<item>> \o SubSeq(sorted, k + 1, Len(sorted)))

analyzeFontFamilies(doc) ==
  Bind(forEach([fontMap |-> <<>>, totalElements |-> 0], doc.elements, countElement),
       LAMBDA counted :
    Bind([i \in 1..Len(counted.fontMap) |->
            [name |-> counted.fontMap[i].name,
             usage |-> usagePercent(counted.fontMap[i].count, counted.totalElements)]],
         LAMBDA fonts :
      slice(forEach(<<>>, SelectSeq(fonts, LAMBDA font : font.usage >= 1), insertByUsage),
            0, MaxFonts)))

(***************************************************************************)
(* TypographyAnalyzer.analyzeHeadings, analyzeBodyText, analyze            *)
(***************************************************************************)
\* a selector of the analyzer: a tag name, or a class name after a dot
matches(element, selector) ==
  IF selector[1] = "." THEN SubSeq(selector, 2, Len(selector)) \in element.classes
  ELSE element.tag = selector

\* document.querySelector(selector): the first match in document order
querySelector(doc, selector) ==
  IF \E i \in 1..Len(doc.elements) : matches(doc.elements[i], selector)
  THEN doc.elements[Minimum({i \in 1..Len(doc.elements) : matches(doc.elements[i], selector)})]
  ELSE NullObject

T_h1 == <<"h","1">>
T_h2 == <<"h","2">>
T_h3 == <<"h","3">>
T_h4 == <<"h","4">>
T_h5 == <<"h","5">>
T_h6 == <<"h","6">>
headingTags == <<T_h1, T_h2, T_h3, T_h4, T_h5, T_h6>>

SampleLength == 50

textStyle(styles) ==
  [fontFamily |-> cleanFontFamily(styles.fontFamily),
   fontSize |-> styles.fontSize,
   fontWeight |-> styles.fontWeight,
   lineHeight |-> normalizeLineHeight(styles.lineHeight, styles.fontSize),
   color |-> TypographyAnalyzer_toHex(styles.color)]

\* the object assigned to headings[tag]
headingStyle(element) ==
  [fontFamily |-> cleanFontFamily(element.style.fontFamily),
   fontSize |-> element.style.fontSize,
   fontWeight |-> element.style.fontWeight,
   lineHeight |-> normalizeLineHeight(element.style.lineHeight, element.style.fontSize),
   color |-> TypographyAnalyzer_toHex(element.style.color),
   sample |-> getSampleText(element, SampleLength)]

\* mutant of addHeading: a tag without element gets an entry for the first element
addHeadingAlways(doc, headings, tag) ==
  Append(headings, [key |-> tag, value |-> headingStyle(doc.elements[1])])

\* the body of headingTags.forEach(tag => ...); the object headings is the
\* sequence of its [key, value] entries in insertion order
addHeading(doc, headings, tag) ==
  Bind(querySelector(doc, tag), LAMBDA element :
    IF element # NullObject
    THEN Append(headings, [key |-> tag, value |-> headingStyle(element)])
    ELSE headings)

analyzeHeadings(doc) ==
  Bind(forEach(<<>>, headingTags, LAMBDA headings, tag : addHeading(doc, headings, tag)),
       LAMBDA headings :
    IF Len(headings) > 0 THEN [entries |-> headings] ELSE NullObject)

\* an exception raised by the call, in place of its result
Thrown(message) == [thrown |-> TRUE, message |-> message]
isThrown(result) == "thrown" \in DOMAIN result

L_p == <<"p">>
L_dotContent == <<".","c","o","n","t","e","n","t">>
L_main == <<"m","a","i","n">>
L_article == <<"a","r","t","i","c","l","e">>
bodySelectors == <<L_p, L_body, L_dotContent, L_main, L_article>>

\* one round of the loop over selectors on acc = [element, found]; found
\* tells that the loop has reached its break
probeSelector(doc, acc, selector) ==
  IF acc.found THEN acc
  ELSE Bind(querySelector(doc, selector), LAMBDA element :
         [element |-> element,
          found |-> element # NullObject /\ hasDirectTextContent(element)])

\* the element analyzeBodyText reads the style of; null when there is none
sampledByCode(doc) ==
  Bind(forEach([element |-> NullObject, found |-> FALSE], bodySelectors,
               LAMBDA acc, selector : probeSelector(doc, acc, selector)).element,
       LAMBDA probed :
    IF probed = NullObject THEN querySelector(doc, L_body) ELSE probed)

analyzeBodyText(doc) ==
  Bind(forEach([element |-> NullObject, found |-> FALSE], bodySelectors,
               LAMBDA acc, selector : probeSelector(doc, acc, selector)).element,
       LAMBDA probed :
  Bind(IF probed = NullObject THEN querySelector(doc, L_body) ELSE probed,
       LAMBDA element :
    IF element = NullObject
    THEN Thrown("getComputedStyle: parameter 1 is not of type 'Element'")
    ELSE textStyle(element.style)))

\* analyze() evaluates the three parts in order; an exception of the last
\* leaves it without result
TypographyAnalyzer_analyze(doc) ==
  Bind(analyzeBodyText(doc), LAMBDA body :
    IF isThrown(body) THEN body
    ELSE [fontFamilies |-> analyzeFontFamilies(doc),
          headings |-> analyzeHeadings(doc),
          body |-> body])

(***************************************************************************)
(* The documents TypographyAnalyzer is run on: an html element, a body     *)
(* element unless the document has none, and their children, all          *)
(* children of the body. The text of html and body is that of the          *)
(* children.                                                               *)
(***************************************************************************)
MaxBulk == 210
MaxMinorFonts == 12

Style(fontFamily, fontSize, fontWeight, lineHeight, color) ==
  [fontFamily |-> fontFamily, fontSize |-> fontSize, fontWeight |-> fontWeight,
   lineHeight |-> lineHeight, color |-> color]

Element(tag, classes, textContent, directText, style) ==
  [tag |-> tag, classes |-> classes, textContent |-> textContent,
   directText |-> directText, style |-> style]

F_inter == <<"I","n","t","e","r",","," ","s","a","n","s","-","s","e","r","i","f">>
F_georgia == <<"G","e","o","r","g","i","a",","," ","s","e","r","i","f">>
F_generic == <<"s","a","n","s","-","s","e","r","i","f">>
S_16px == <<"1","6","p","x">>
S_24px == <<"2","4","p","x">>
DefaultStyle == Style(F_inter, S_16px, "400", L_normal, RGB(34, 34, 34))

\* the k-th minor font: quoted with a fallback, behind a system font, or bare
FontFamilyAt(k) ==
  CASE k % 3 = 1 -> <<L_quote,"F","o","n","t"," ",UpperLetters[k],L_quote,",",
                      " ","s","e","r","i","f">>
    [] k % 3 = 2 -> <<"s","y","s","t","e","m","-","u","i",","," ","'","F","o","n","t",
                      UpperLetters[k],"'">>
    [] OTHER -> <<"F","o","n","t",UpperLetters[k]>>

\* the number of elements set in the k-th minor font
MinorCount(k) == ((k - 1) % 3) + 1

L_span == <<"s","p","a","n">>
L_div == <<"d","i","v">>
L_img == <<"i","m","g">>

SpanAt(k) ==
  Element(L_span, {}, <<"t", LowerLetters[k]>>, TRUE,
          [DefaultStyle EXCEPT !.fontFamily = FontFamilyAt(k)])

MinorElements(nFonts) ==
  forEach(<<>>, [k \in 1..nFonts |-> k],
          LAMBDA els, k : els \o [c \in 1..MinorCount(k) |-> SpanAt(k)])

BulkElements(nBulk) ==
  [i \in 1..nBulk |-> Element(L_div, {}, <<"x">>, TRUE, DefaultStyle)]

\* elements without text, with blank text, without font family, and with
\* nothing but a generic family
OddElements ==
  << Element(L_img, {}, <<>>, FALSE, [DefaultStyle EXCEPT !.fontFamily = F_georgia]),
     Element(L_div, {}, <<" ", "\n", "\t">>, FALSE,
             [DefaultStyle EXCEPT !.fontFamily = F_georgia]),
     Element(L_span, {}, <<"n","o">>, TRUE, [DefaultStyle EXCEPT !.fontFamily = <<>>]),
     Element(L_span, {}, <<"g","e","n">>, TRUE,
             [DefaultStyle EXCEPT !.fontFamily = F_generic]) >>

\* the heading of level n: the first of its tag (nth = 1) or a later one
H_long ==
  <<" ", "\n">> \o [i \in 1..64 |-> IF i % 6 = 0 THEN " " ELSE LowerLetters[(i % 26) + 1]]
    \o <<" ", " ", "e","n","d", "\t">>

HeadingElement(n, nth) ==
  Element(headingTags[n], {},
          IF n = 1 /\ nth = 1 THEN H_long ELSE <<"H", DecDigits[n + 1], " ", DecDigits[nth + 1]>>,
          TRUE,
          Style(IF nth = 1 THEN F_georgia ELSE F_inter,
                CASE n = 1 -> <<"4","0","p","x">>
                  [] n = 2 -> <<"3","2","p","x">>
                  [] n = 3 -> S_24px
                  [] n = 6 -> <<"0","p","x">>
                  [] OTHER -> S_16px,
                IF nth = 1 THEN "700" ELSE "400",
                CASE n = 1 -> <<"2","3","p","x">>
                  [] n = 2 -> L_normal
                  [] n = 5 -> <<"1",".","5">>
                  [] OTHER -> S_24px,
                CASE n = 2 -> RGBA(10, 20, 30, 50)
                  [] n = 3 -> RGBSpaces(1, 2, 3)
                  [] n = 4 -> [fmt |-> "other",
                               text |-> <<"c","o","l","o","r","(","s","r","g","b"," ",
                                          "1"," ","0"," ","0",")">>]
                  [] n = 5 -> HEX(<<"a","b","c">>)
                  [] OTHER -> RGB(17 * n, 17 * nth, 255)))

\* the headings of the levels in levels, highest level number first, then
\* a second heading of each level when twice
HeadingElements(levels, twice) ==
  forEach(<<>>, [i \in 1..Len(headingTags) |-> Len(headingTags) + 1 - i],
          LAMBDA els, n : IF n \in levels THEN Append(els, HeadingElement(n, 1)) ELSE els)
    \o (IF twice
        THEN forEach(<<>>, [i \in 1..Len(headingTags) |-> i],
                     LAMBDA els, n : IF n \in levels THEN Append(els, HeadingElement(n, 2))
                                     ELSE els)
        ELSE <<>>)

\* the concatenated text of the elements
textOf(elements) == forEach(<<>>, elements, LAMBDA text, el : text \o el.textContent)

Page(hasBody, children) ==
  Bind(textOf(children), LAMBDA text :
    [elements |->
       <<Element(L_html, {}, text, FALSE, DefaultStyle)>>
         \o (IF hasBody THEN <<Element(L_body, {}, text, FALSE, DefaultStyle)>> ELSE <<>>)
         \o children])

\* pages that differ in their fonts
FontDocs ==
  { Page(TRUE, BulkElements(nBulk) \o MinorElements(nFonts)
                 \o (IF odd THEN OddElements ELSE <<>>)) :
      nBulk \in {0, 3, 17, MaxBulk}, nFonts \in 0..MaxMinorFonts, odd \in BOOLEAN }

\* pages that differ in their headings
HeadingDocs ==
  { Page(hasBody, HeadingElements(levels, twice)) :
      levels \in SUBSET (1..Len(headingTags)), twice \in BOOLEAN, hasBody \in BOOLEAN }

\* the element a body-text selector finds: absent (0), without a text node
\* of its own (1) or with one (2); each has a font size of its own
ProbeElement(selector, state) ==
  IF state = 0 THEN <<>>
  ELSE << Element(IF selector[1] = "." THEN L_div ELSE selector,
                  IF selector[1] = "." THEN {SubSeq(selector, 2, Len(selector))} ELSE {},
                  <<"t","e","x","t">>, state = 2,
                  [DefaultStyle EXCEPT !.fontSize =
                     CASE selector = L_p -> <<"1","2","p","x">>
                       [] selector = L_dotContent -> <<"1","3","p","x">>
                       [] selector = L_main -> <<"1","4","p","x">>
                       [] OTHER -> <<"1","5","p","x">>]) >>

\* a page with the elements of the body-text probe, in the document in the
\* reverse of the probe order, whose body may have a text node of its own
BodyPage(bodyText, states) ==
  Bind(Page(TRUE, ProbeElement(L_article, states[4]) \o ProbeElement(L_main, states[3])
                    \o ProbeElement(L_dotContent, states[2]) \o ProbeElement(L_p, states[1])),
       LAMBDA page :
    [page EXCEPT !.elements[2].directText = bodyText])

ProbeStates == 0..2

\* pages that differ in the elements analyzeBodyText looks at
BodyDocs ==
  { BodyPage(bodyText, <<p, content, main, article>>) :
      bodyText \in BOOLEAN, p \in ProbeStates, content \in ProbeStates,
      main \in ProbeStates, article \in ProbeStates }

TypoDocs == FontDocs \cup HeadingDocs \cup BodyDocs

(***************************************************************************)
(* SpecTypo: the three parts of TypographyAnalyzer.analyze() run once on   *)
(* any of the documents                                                    *)
(***************************************************************************)
TypoIdle ==
  /\ typoFonts = <<>>
  /\ typoHeadings = NullObject
  /\ typoBody = NullObject
  /\ typoDone = FALSE

InitTypo ==
  /\ typoDoc \in TypoDocs
  /\ TypoIdle
  /\ ColorUnused
  /\ ImageUnused
  /\ ContentUnused
  /\ PopupUnused
  /\ ReportUnused

AnalyzeTypography ==
  /\ ~typoDone
  /\ typoFonts' = analyzeFontFamilies(typoDoc)
  /\ typoHeadings' = analyzeHeadings(typoDoc)
  /\ typoBody' = analyzeBodyText(typoDoc)
  /\ typoDone' = TRUE
  /\ UNCHANGED <<typoDoc, colorVars, imgVars, contentVars, popupVars, reportVars>>

NextTypo == AnalyzeTypography

SpecTypo == InitTypo /\ [][NextTypo]_vars

(***************************************************************************)
(* Claims on TypographyAnalyzer                                            *)
(***************************************************************************)
\* the primary fonts of the text-bearing elements of the document
FontsOf(doc) ==
  {cleanFontFamily(doc.elements[i].style.fontFamily) :
     i \in {j \in 1..Len(doc.elements) : hasTextContent(doc.elements[j])}} \ {Null, <<>>}

\* C5: analyzeFontFamilies() returns at most 10 records, each with an integer
\* usage from 1 to 100, in non-increasing order of usage, and an empty list
\* for a page without text-bearing element
C5_FontFamilies ==
  typoDone =>
    /\ Len(typoFonts) <= 10
    /\ \A i \in 1..Len(typoFonts) : typoFonts[i].usage \in 1..100
    /\ \A i, j \in 1..Len(typoFonts) : i < j => typoFonts[i].usage >= typoFonts[j].usage
    /\ (\A i \in 1..Len(typoDoc.elements) : ~hasTextContent(typoDoc.elements[i]))
         => typoFonts = <<>>

\* a page with more than 10 fonts, one of them below 1%, of which 10 are
\* returned with differing usages
C5_Witness ==
  /\ typoDone
  /\ Cardinality(FontsOf(typoDoc)) > 10
  /\ Len(typoFonts) = 10
  /\ typoFonts[1].usage > typoFonts[10].usage

\* a page with text whose least used fonts stay below 1% and are dropped
C5_WitnessDropped ==
  /\ typoDone
  /\ Cardinality(FontsOf(typoDoc)) > Len(typoFonts)
  /\ Len(typoFonts) \in 1..9

\* the tags among h1..h6 that occur in the document
TagsPresent(doc) ==
  {headingTags[n] : n \in {m \in 1..Len(headingTags) :
                             \E i \in 1..Len(doc.elements) : doc.elements[i].tag = headingTags[m]}}

\* the first element of the tag in document order
FirstOfTag(doc, tag) ==
  doc.elements[Minimum({i \in 1..Len(doc.elements) : doc.elements[i].tag = tag})]

\* C10: analyzeHeadings returns a map whose keys are exactly the tags among
\* h1..h6 that occur in the document, each with the snapshot of the first
\* element of that tag, and null, never an empty map, when none occurs
C10_Headings ==
  typoDone =>
    IF TagsPresent(typoDoc) = {}
    THEN typoHeadings = NullObject
    ELSE /\ typoHeadings # NullObject
         /\ typoHeadings.entries # <<>>
         /\ {typoHeadings.entries[i].key : i \in 1..Len(typoHeadings.entries)}
              = TagsPresent(typoDoc)
         /\ Len(typoHeadings.entries) = Cardinality(TagsPresent(typoDoc))
         /\ \A i \in 1..Len(typoHeadings.entries) :
              typoHeadings.entries[i].value
                = headingStyle(FirstOfTag(typoDoc, typoHeadings.entries[i].key))

\* a page with some of the heading tags, two elements of a tag that differ,
\* analysed
C10_Witness ==
  /\ typoDone
  /\ typoHeadings # NullObject
  /\ Cardinality(TagsPresent(typoDoc)) \in 2..5
  /\ \E i, j \in 1..Len(typoDoc.elements) :
       /\ i < j
       /\ typoDoc.elements[i].tag = T_h3
       /\ typoDoc.elements[j].tag = T_h3
       /\ headingStyle(typoDoc.elements[i]) # headingStyle(typoDoc.elements[j])

\* the element the body-text probe is to sample: the first in the order of
\* bodySelectors that its selector finds with a text node of its own, and
\* document.body when there is none
sampledElement(doc) ==
  LET hits == {i \in 1..Len(bodySelectors) :
                 /\ querySelector(doc, bodySelectors[i]) # NullObject
                 /\ hasDirectTextContent(querySelector(doc, bodySelectors[i]))}
  IN  IF hits # {} THEN querySelector(doc, bodySelectors[Minimum(hits)])
      ELSE querySelector(doc, L_body)

\* C11: on a document with a body, analyzeBodyText returns the style of the
\* first element, in the probe order p, body, .content, main, article, that
\* has a direct non-empty text child, and the style of document.body when no
\* probed element has direct text.
C11_BodyText ==
  (typoDone /\ querySelector(typoDoc, L_body) # NullObject)
    => typoBody = textStyle(sampledElement(typoDoc).style)

\* out is the text of the quotient lineHeight / fontSize with two decimals:
\* digits, a point and two digits, no more than half a hundredth away
IsRatioOf(out, lineHeight, fontSize) ==
  /\ Len(out) >= 4
  /\ out[Len(out) - 2] = "."
  /\ \A i \in (1..Len(out)) \ {Len(out) - 2} : out[i] \in Range(DecDigits)
  /\ LET lh == parseFloat(lineHeight)
         fs == parseFloat(fontSize)
         n == parseFloat(out)[1]
         exact == 100 * lh[1] * fs[2]
         shown == n * lh[2] * fs[1]
     IN  2 * (IF exact >= shown THEN exact - shown ELSE shown - exact) <= lh[2] * fs[1]

\* the elements whose style analyze() reports, each with the line-height
\* reported for it: the first heading of each level, and the body sample
ReportedLineHeights ==
  (IF typoHeadings = NullObject THEN {}
   ELSE {[style |-> querySelector(typoDoc, typoHeadings.entries[i].key).style,
          out |-> typoHeadings.entries[i].value.lineHeight] :
           i \in 1..Len(typoHeadings.entries)})
  \cup (IF typoBody = NullObject \/ isThrown(typoBody) THEN {}
        ELSE {[style |-> sampledByCode(typoDoc).style, out |-> typoBody.lineHeight]})

\* C22, as stated: "normal" gives "1.2"; every line-height in px gives the
\* ratio line-height / font-size with two decimals and never a value that
\* still ends in px; any other value is returned unchanged
C22_NeverPx ==
  typoDone =>
    \A r \in ReportedLineHeights :
      /\ r.style.lineHeight = L_normal => r.out = L_defaultLineHeight
      /\ endsWith(r.style.lineHeight, L_px) =>
           /\ ~endsWith(r.out, L_px)
           /\ isPositive(parseFloat(r.style.fontSize)) =>
                IsRatioOf(r.out, r.style.lineHeight, r.style.fontSize)
      /\ (r.style.lineHeight # L_normal /\ ~endsWith(r.style.lineHeight, L_px)) =>
           r.out = r.style.lineHeight

\* C22 amended: "normal" gives "1.2"; a line-height in px with a font size
\* above zero gives the ratio line-height / font-size with two decimals
\* ("24px" with "16px" gives "1.50"); a line-height in px with a font size
\* that is zero is returned unchanged, still in px; any other value is
\* returned unchanged.
C22_LineHeight ==
  typoDone =>
    \A r \in ReportedLineHeights :
      /\ r.style.lineHeight = L_normal => r.out = L_defaultLineHeight
      /\ (endsWith(r.style.lineHeight, L_px) /\ isPositive(parseFloat(r.style.fontSize))) =>
           IsRatioOf(r.out, r.style.lineHeight, r.style.fontSize)
      /\ (endsWith(r.style.lineHeight, L_px) /\ ~isPositive(parseFloat(r.style.fontSize))) =>
           r.out = r.style.lineHeight
      /\ (r.style.lineHeight # L_normal /\ ~endsWith(r.style.lineHeight, L_px)) =>
           r.out = r.style.lineHeight

\* "24px" with "16px" has given "1.50", and "24px" with "0px" is still "24px"
C22_Witness ==
  /\ typoDone
  /\ \E r \in ReportedLineHeights :
       /\ r.style.lineHeight = S_24px
       /\ r.style.fontSize = S_16px
       /\ r.out = <<"1",".","5","0">>
  /\ \E r \in ReportedLineHeights :
       /\ r.style.lineHeight = S_24px
       /\ r.style.fontSize = <<"0","p","x">>
       /\ r.out = S_24px

(***************************************************************************)
(* ImageAnalyzer. The document is [location, elements]: the elements in    *)
(* document order, each with the index of its parent element (0 for a      *)
(* child of the body), its attributes as text (empty when absent) and the  *)
(* layout and style values the analyzer reads.                             *)
(***************************************************************************)
L_svg == <<"s","v","g">>
L_a == <<"a">>
L_header == <<"h","e","a","d","e","r">>
L_nav == <<"n","a","v">>
L_logo == <<"l","o","g","o">>
L_brand == <<"b","r","a","n","d">>
L_none == <<"n","o","n","e">>
AnyTag == <<"*">>

\* String.prototype.startsWith
startsWith(s, prefix) == Len(prefix) <= Len(s) /\ SubSeq(s, 1, Len(prefix)) = prefix

\* the class names of a class attribute
classList(className) ==
  {token \in Range(split([i \in 1..Len(className) |->
                            IF className[i] \in Whitespace THEN " " ELSE className[i]],
                         " ")) : token # <<>>}

\* simple selectors: tag, tag[attr*="value"] (i for case-insensitive),
\* tag[attr="value"], .name and #name; tag AnyTag for none
AttrContains(tag, attr, value, ci) ==
  [tag |-> tag, test |-> "contains", attr |-> attr, value |-> value, ci |-> ci]
AttrEquals(tag, attr, value) ==
  [tag |-> tag, test |-> "equals", attr |-> attr, value |-> value, ci |-> FALSE]
ClassIs(name) ==
  [tag |-> AnyTag, test |-> "class", attr |-> "className", value |-> name, ci |-> FALSE]
IdIs(name) == AttrEquals(AnyTag, "id", name)
TagIs(tag) == [tag |-> tag, test |-> "any", attr |-> "id", value |-> <<>>, ci |-> FALSE]

matchesSimple(element, simple) ==
  /\ simple.tag = AnyTag \/ element.tag = simple.tag
  /\ CASE simple.test = "contains" ->
            IF simple.ci
            THEN includes(toLowerCase(element[simple.attr]), toLowerCase(simple.value))
            ELSE includes(element[simple.attr], simple.value)
       [] simple.test = "equals" -> element[simple.attr] = simple.value
       [] simple.test = "class" -> simple.value \in classList(element.className)
       [] OTHER -> TRUE

\* a selector 'ancestor subject' or 'ancestor subject:first-of-type', and
\* 'subject' alone with ancestor TagIs(AnyTag) and scoped FALSE
Selector(scoped, ancestor, subject, firstOfType) ==
  [scoped |-> scoped, ancestor |-> ancestor, subject |-> subject,
   firstOfType |-> firstOfType]
Alone(subject) == Selector(FALSE, TagIs(AnyTag), subject, FALSE)
Inside(ancestor, subject) == Selector(TRUE, ancestor, subject, FALSE)
FirstInside(ancestor, subject) == Selector(TRUE, ancestor, subject, TRUE)

\* the indexes of the ancestors of the i-th element
RECURSIVE ancestors(_, _)
ancestors(doc, i) ==
  IF doc.elements[i].parent = 0 THEN {}
  ELSE {doc.elements[i].parent} \cup ancestors(doc, doc.elements[i].parent)

\* :first-of-type: no earlier sibling has the tag of the element
isFirstOfType(doc, i) ==
  ~\E j \in 1..(i - 1) : /\ doc.elements[j].parent = doc.elements[i].parent
                         /\ doc.elements[j].tag = doc.elements[i].tag

matchesSelector(doc, i, selector) ==
  /\ matchesSimple(doc.elements[i], selector.subject)
  /\ selector.firstOfType => isFirstOfType(doc, i)
  /\ selector.scoped =>
       \E j \in ancestors(doc, i) : matchesSimple(doc.elements[j], selector.ancestor)

\* document.querySelectorAll of a selector list: the indexes of the matches
selectAll(doc, selectors) ==
  {i \in 1..Len(doc.elements) :
     \E k \in 1..Len(selectors) : matchesSelector(doc, i, selectors[k])}

\* document.querySelector of a selector list
selectFirst(doc, selectors) ==
  Bind(selectAll(doc, selectors), LAMBDA found :
    IF found = {} THEN NullObject ELSE doc.elements[Minimum(found)])

(***************************************************************************)
(* ImageAnalyzer.getFileType, getImageInfo, getSvgInfo                     *)
(***************************************************************************)
L_unknown == <<"u","n","k","n","o","w","n">>
L_data == <<"d","a","t","a",":">>
L_dataImage == <<"d","a","t","a",":","i","m","a","g","e","/">>

validTypes ==
  << <<"j","p","g">>, <<"j","p","e","g">>, <<"p","n","g">>, <<"g","i","f">>,
     <<"w","e","b","p">>, L_svg, <<"i","c","o">>, <<"b","m","p">>, <<"a","v","i","f">> >>

\* the characters \w matches
isWordChar(c) ==
  c \in Range(LowerLetters) \cup Range(UpperLetters) \cup Range(DecDigits) \cup {"_"}

\* url.match(/data:image\/(\w+)/): the captured word, Null without match
matchDataImage(url) ==
  Bind({i \in 1..Len(url) :
          /\ i + Len(L_dataImage) <= Len(url)
          /\ SubSeq(url, i, i + Len(L_dataImage) - 1) = L_dataImage
          /\ isWordChar(url[i + Len(L_dataImage)])}, LAMBDA starts :
    IF starts = {} THEN Null
    ELSE Bind(Minimum(starts) + Len(L_dataImage), LAMBDA from :
           SubSeq(url, from,
                  Maximum({k \in from..Len(url) : \A j \in from..k : isWordChar(url[j])}))))

getFileType(url) ==
  IF url = <<>> THEN L_unknown
  ELSE IF startsWith(url, L_data)
  THEN Bind(matchDataImage(url), LAMBDA word : IF word # Null THEN word ELSE L_unknown)
  ELSE Bind(split(url, "."), LAMBDA parts :
       Bind(toLowerCase(split(parts[Len(parts)], "?")[1]), LAMBDA extension :
         IF extension \in Range(validTypes) THEN extension ELSE L_unknown))

getImageInfo(img) ==
  IF img = NullObject \/ img.src = <<>> THEN NullObject
  ELSE [url |-> img.src,
        alt |-> img.alt,
        width |-> IF img.naturalWidth # 0 THEN img.naturalWidth ELSE img.width,
        height |-> IF img.naturalHeight # 0 THEN img.naturalHeight ELSE img.height,
        type |-> getFileType(img.src)]

L_svgNamespace ==
  <<"h","t","t","p",":","/","/","w","w","w",".","w","3",".","o","r","g","/",
    "2","0","0","0","/","s","v","g">>

\* Math.round(rect.width) || svg.getAttribute('width') || null, the
\* bounding box in tenths of a pixel: a number, the text of the attribute,
\* or null
svgDimension(rectSize, attribute) ==
  IF MathRound(<<rectSize, 10>>) # 0 THEN [number |-> MathRound(<<rectSize, 10>>)]
  ELSE IF attribute # <<>> THEN [text |-> attribute]
  ELSE NullObject

\* the value setAttribute(name, value) stores: String(value)
attributeText(value) ==
  IF "number" \in DOMAIN value THEN numberToString(value.number) ELSE value.text

\* new XMLSerializer().serializeToString(svgClone): the markup, given by the
\* attributes the clone ends with and the children of the element
serializeToString(svg, width, height) ==
  [xmlns |-> IF svg.xmlns = <<>> THEN L_svgNamespace ELSE svg.xmlns,
   width |-> IF width # NullObject THEN attributeText(width) ELSE svg.attrWidth,
   height |-> IF height # NullObject THEN attributeText(height) ELSE svg.attrHeight,
   className |-> svg.className,
   children |-> svg.children]

\* URL.createObjectURL(new Blob([content], { type: 'image/svg+xml' }))
createObjectURL(content) == [blob |-> content, type |-> "image/svg+xml"]

getSvgInfo(svg, isLogo) ==
  IF svg = NullObject THEN NullObject
  ELSE Bind(svgDimension(svg.rect.width, svg.attrWidth), LAMBDA width :
       Bind(svgDimension(svg.rect.height, svg.attrHeight), LAMBDA height :
       Bind(serializeToString(svg, width, height), LAMBDA content :
         IF isLogo
         THEN [url |-> createObjectURL(content), width |-> width, height |-> height,
               type |-> L_svg, content |-> content]
         ELSE [width |-> width, height |-> height, content |-> content])))

(***************************************************************************)
(* ImageAnalyzer.detectLogo                                                *)
(***************************************************************************)
logoSelectors ==
  << Alone(AttrContains(L_img, "alt", L_logo, TRUE)),
     Alone(AttrContains(L_img, "alt", L_brand, TRUE)),
     Alone(AttrContains(L_img, "className", L_logo, TRUE)),
     Alone(AttrContains(L_img, "id", L_logo, TRUE)),
     Alone(AttrContains(L_img, "className", L_brand, TRUE)),
     Inside(ClassIs(L_logo), TagIs(L_img)),
     Inside(IdIs(L_logo), TagIs(L_img)),
     Inside(AttrContains(AnyTag, "className", L_logo, FALSE), TagIs(L_img)),
     FirstInside(TagIs(L_header), TagIs(L_img)),
     FirstInside(TagIs(L_nav), TagIs(L_img)),
     Inside(AttrEquals(L_a, "href", <<"/">>), TagIs(L_img)),
     Inside(AttrEquals(L_a, "href", <<".", "/">>), TagIs(L_img)) >>

svgLogoSelectors ==
  << Alone(AttrContains(L_svg, "className", L_logo, TRUE)),
     Inside(ClassIs(L_logo), TagIs(L_svg)),
     Inside(IdIs(L_logo), TagIs(L_svg)),
     FirstInside(TagIs(L_header), TagIs(L_svg)),
     FirstInside(TagIs(L_nav), TagIs(L_svg)) >>

headerImgSelectors ==
  << Inside(TagIs(L_header), TagIs(L_img)), Inside(TagIs(L_nav), TagIs(L_img)) >>

\* one round of a loop over selectors: found is the value the loop returns,
\* NullObject while it has not returned
tryImgSelector(doc, found, selector) ==
  IF found # NullObject THEN found
  ELSE Bind(selectFirst(doc, <<selector>>), LAMBDA element :
         IF element # NullObject /\ element.src # <<>>
         THEN getImageInfo(element) ELSE NullObject)

trySvgSelector(doc, found, selector) ==
  IF found # NullObject THEN found
  ELSE Bind(selectFirst(doc, <<selector>>), LAMBDA element :
         IF element # NullObject THEN getSvgInfo(element, TRUE) ELSE NullObject)

\* Strategy 1
rasterLogo(doc) ==
  forEach(NullObject, logoSelectors,
          LAMBDA found, selector : tryImgSelector(doc, found, selector))

\* Strategy 2
svgLogo(doc) ==
  forEach(NullObject, svgLogoSelectors,
          LAMBDA found, selector : trySvgSelector(doc, found, selector))

\* Strategy 3
headerLogo(doc) ==
  Bind(selectFirst(doc, headerImgSelectors), LAMBDA headerImg :
    IF headerImg # NullObject /\ headerImg.src # <<>>
    THEN getImageInfo(headerImg) ELSE NullObject)

\* mutant of detectLogo: the inline SVGs are tried before the images
detectLogoSvgFirst(doc) ==
  Bind(svgLogo(doc), LAMBDA svg :
    IF svg # NullObject THEN svg
    ELSE Bind(rasterLogo(doc), LAMBDA raster :
           IF raster # NullObject THEN raster ELSE headerLogo(doc)))

detectLogo(doc) ==
  Bind(rasterLogo(doc), LAMBDA raster :
    IF raster # NullObject THEN raster
    ELSE Bind(svgLogo(doc), LAMBDA svg :
           IF svg # NullObject THEN svg ELSE headerLogo(doc)))

(***************************************************************************)
(* ImageAnalyzer.getAllImages, getInlineSvgs, getBackgroundImages          *)
(***************************************************************************)
MinImageSize == 10
MinDataUriLength == 100
MinSvgSize == 5

\* the elements at the indexes in document order
elementsAt(doc, indexes) ==
  forEach(<<>>, [i \in 1..Len(doc.elements) |-> i],
          LAMBDA els, i : IF i \in indexes THEN Append(els, doc.elements[i]) ELSE els)

\* mutant of addImage: an image is skipped only when both sides are small
addImageBothSmall(images, img) ==
  IF img.width < MinImageSize /\ img.height < MinImageSize THEN images
  ELSE IF startsWith(img.src, L_data) /\ Len(img.src) < MinDataUriLength THEN images
  ELSE Bind(getImageInfo(img), LAMBDA info :
         IF info # NullObject /\ info.url # <<>> THEN Append(images, info) ELSE images)

\* the body of imgElements.forEach(img => ...)
addImage(images, img) ==
  IF img.width < MinImageSize \/ img.height < MinImageSize THEN images
  ELSE IF startsWith(img.src, L_data) /\ Len(img.src) < MinDataUriLength THEN images
  ELSE Bind(getImageInfo(img), LAMBDA info :
         IF info # NullObject /\ info.url # <<>> THEN Append(images, info) ELSE images)

\* Array.prototype.sort by (b.width || 0) * (b.height || 0) descending: stable
insertByArea(sorted, item) ==
  Bind(Cardinality({i \in 1..Len(sorted) :
                      sorted[i].width * sorted[i].height >= item.width * item.height}),
       LAMBDA k : SubSeq(sorted, 1, k) \o <<item>> \o SubSeq(sorted, k + 1, Len(sorted)))

getAllImages(doc) ==
  forEach(<<>>,
          forEach(<<>>,
                  elementsAt(doc, {i \in 1..Len(doc.elements) :
                                     /\ doc.elements[i].tag = L_img
                                     /\ doc.elements[i].hasSrc}),
                  addImage),
          insertByArea)

\* the body of svgElements.forEach(svg => ...), the bounding box in tenths
\* of a pixel
addSvg(svgs, svg) ==
  IF svg.rect.width < 10 * MinSvgSize /\ svg.rect.height < 10 * MinSvgSize THEN svgs
  ELSE Bind(getSvgInfo(svg, FALSE), LAMBDA info :
         IF info # NullObject THEN Append(svgs, info) ELSE svgs)

getInlineSvgs(doc) ==
  forEach(<<>>, elementsAt(doc, selectAll(doc, <<Alone(TagIs(L_svg))>>)), addSvg)

L_urlOpen == <<"u","r","l","(">>
L_gradient == <<"g","r","a","d","i","e","n","t">>
L_http == <<"h","t","t","p">>
Quotes == {L_quote, L_apostrophe}

\* the end of the longest run of characters other than quotes and ')' that
\* starts at from, from - 1 without such a character
urlRunEnd(s, from) ==
  from - 1 + Cardinality({k \in from..Len(s) :
                            \A j \in from..k : s[j] \notin Quotes \cup {")"}})

\* whether /url\(["']?([^"')]+)["']?\)/ matches at position i
urlMatchesAt(s, i) ==
  /\ i + 3 <= Len(s)
  /\ SubSeq(s, i, i + 3) = L_urlOpen
  /\ LET from == IF i + 4 <= Len(s) /\ s[i + 4] \in Quotes THEN i + 5 ELSE i + 4
         to == urlRunEnd(s, from)
         close == IF to + 1 <= Len(s) /\ s[to + 1] \in Quotes THEN to + 2 ELSE to + 1
     IN  to >= from /\ close <= Len(s) /\ s[close] = ")"

\* bgImage.match(/url\(["']?([^"')]+)["']?\)/): the captured URL, Null without match
matchUrl(s) ==
  Bind({i \in 1..Len(s) : urlMatchesAt(s, i)}, LAMBDA starts :
    IF starts = {} THEN Null
    ELSE Bind(Minimum(starts), LAMBDA i :
         Bind(IF s[i + 4] \in Quotes THEN i + 5 ELSE i + 4, LAMBDA from :
           SubSeq(s, from, urlRunEnd(s, from)))))

\* the origin of an absolute URL: up to the third '/'
originOf(href) ==
  SubSeq(href, 1, Minimum({k \in 1..Len(href) :
                             /\ href[k] = "/"
                             /\ Cardinality({j \in 1..k : href[j] = "/"}) = 3}) - 1)

\* the directory of an absolute URL: up to its last '/'
directoryOf(href) ==
  SubSeq(href, 1, Maximum({k \in 1..Len(href) : href[k] = "/"}))

\* new URL(url, window.location.href).href for a relative reference
\* without '..' segments, query and fragment
resolveRelative(url, href) ==
  IF startsWith(url, <<"/", "/">>)
  THEN SubSeq(href, 1, Minimum({k \in 1..Len(href) : href[k] = ":"})) \o url
  ELSE IF startsWith(url, <<"/">>) THEN originOf(href) \o url
  ELSE IF startsWith(url, <<".", "/">>) THEN directoryOf(href) \o SubSeq(url, 3, Len(url))
  ELSE directoryOf(href) \o url

resolveUrl(url, href) ==
  IF startsWith(url, L_http) \/ startsWith(url, L_data) THEN url
  ELSE resolveRelative(url, href)

\* an svg element has no className string
getElementSelector(element) ==
  IF element.id # <<>> THEN <<"#">> \o element.id
  ELSE IF element.className # <<>> /\ element.tag # L_svg
          /\ split(element.className, " ")[1] # <<>>
       THEN element.tag \o <<".">> \o split(element.className, " ")[1]
       ELSE element.tag

\* the body of elements.forEach(element => ...)
addBackground(doc, backgrounds, element) ==
  IF element.backgroundImage = <<>> \/ element.backgroundImage = L_none THEN backgrounds
  ELSE Bind(matchUrl(element.backgroundImage), LAMBDA url :
         IF url = Null THEN backgrounds
         ELSE IF startsWith(url, L_data) \/ includes(url, L_gradient) THEN backgrounds
         ELSE Append(backgrounds, [url |-> resolveUrl(url, doc.location),
                                   element |-> getElementSelector(element)]))

\* mutant of addUnique: a later record with a seen URL replaces the kept one
addUniqueKeepLast(acc, bg) ==
  IF bg.url \in acc.seenUrls
  THEN [acc EXCEPT !.uniqueBackgrounds =
          [k \in 1..Len(@) |-> IF @[k].url = bg.url THEN bg ELSE @[k]]]
  ELSE [uniqueBackgrounds |-> Append(acc.uniqueBackgrounds, bg),
        seenUrls |-> acc.seenUrls \cup {bg.url}]

\* the body of backgrounds.forEach(bg => ...): acc = [uniqueBackgrounds, seenUrls]
addUnique(acc, bg) ==
  IF bg.url \in acc.seenUrls THEN acc
  ELSE [uniqueBackgrounds |-> Append(acc.uniqueBackgrounds, bg),
        seenUrls |-> acc.seenUrls \cup {bg.url}]

getBackgroundImages(doc) ==
  forEach([uniqueBackgrounds |-> <<>>, seenUrls |-> {}],
          forEach(<<>>, doc.elements,
                  LAMBDA backgrounds, element : addBackground(doc, backgrounds, element)),
          addUnique).uniqueBackgrounds

ImageAnalyzer_analyze(doc) ==
  [logo |-> detectLogo(doc),
   all |-> getAllImages(doc),
   svgs |-> getInlineSvgs(doc),
   backgrounds |-> getBackgroundImages(doc)]

(***************************************************************************)
(* The documents ImageAnalyzer is run on: up to two groups of elements,    *)
(* each of one of the kinds below, one after the other as children of the  *)
(* body. The images of a group carry the position of the group in their    *)
(* URL.                                                                    *)
(***************************************************************************)
ItemKinds == 41

BaseElement ==
  [tag |-> L_div, parent |-> 0, alt |-> <<>>, className |-> <<>>, id |-> <<>>,
   href |-> <<>>, src |-> <<>>, hasSrc |-> FALSE, width |-> 0, height |-> 0,
   naturalWidth |-> 0, naturalHeight |-> 0, rect |-> [width |-> 0, height |-> 0],
   attrWidth |-> <<>>, attrHeight |-> <<>>, xmlns |-> <<>>, children |-> <<>>,
   backgroundImage |-> L_none]

L_location ==
  <<"h","t","t","p","s",":","/","/","s","i","t","e",".","t","e","s","t","/",
    "s","h","o","p","/","i","n","d","e","x",".","h","t","m","l">>

\* https://site.test/img/k<kind>p<pos>n<n>.png
ImageUrl(kind, pos, n) ==
  <<"h","t","t","p","s",":","/","/","s","i","t","e",".","t","e","s","t","/","i","m","g","/","k">>
    \o numberToString(kind) \o <<"p">> \o numberToString(pos) \o <<"n">>
    \o numberToString(n) \o <<".","p","n","g">>

Img(parent, url) ==
  [BaseElement EXCEPT !.tag = L_img, !.parent = parent, !.src = url, !.hasSrc = TRUE,
                      !.width = 120, !.height = 40, !.naturalWidth = 240,
                      !.naturalHeight = 80]

ImgWithoutSrc(parent) ==
  [BaseElement EXCEPT !.tag = L_img, !.parent = parent, !.width = 120, !.height = 40]

Svg(parent, pos) ==
  [BaseElement EXCEPT !.tag = L_svg, !.parent = parent,
                      !.rect = [width |-> 235 + pos, height |-> 240],
                      !.children = <<"<","p","a","t","h","/",">", DecDigits[pos + 1]>>]

Box(tag) == [BaseElement EXCEPT !.tag = tag]

\* an svg element with a bounding box in tenths of a pixel
SizedSvg(pos, width, height) ==
  [Svg(0, pos) EXCEPT !.rect = [width |-> width, height |-> height]]

\* an img element rendered at width x height
SizedImg(url, width, height) ==
  [Img(0, url) EXCEPT !.width = width, !.height = height, !.naturalWidth = width,
                      !.naturalHeight = height]

\* a data URI of n characters
DataUri(n) ==
  Bind(<<"d","a","t","a",":","i","m","a","g","e","/","p","n","g",";","b","a","s","e","6","4",",">>, LAMBDA prefix :
    prefix \o [i \in 1..(n - Len(prefix)) |-> "A"])

\* computed background-image values: a gradient, and a gradient layered over
\* an image
GradientOnly ==
  <<"l","i","n","e","a","r","-","g","r","a","d","i","e","n","t","(","r","e","d",","," ","b","l","u","e",")">>
GradientOverImage ==
  GradientOnly \o <<","," ","u","r","l","(","/","i","m","g","/","t","i","l","e",".","p","n","g",")">>

\* the elements of a group of the kind at position pos; parent indexes count
\* inside the group
Item(kind, pos) ==
  CASE kind = 1 -> <<[Img(0, ImageUrl(kind, pos, 1)) EXCEPT
                        !.alt = <<"C","o","m","p","a","n","y"," ","L","o","g","o">>]>>
    [] kind = 2 -> <<[Img(0, ImageUrl(kind, pos, 1)) EXCEPT
                        !.alt = <<"B","R","A","N","D"," ","m","a","r","k">>]>>
    [] kind = 3 -> <<[Img(0, ImageUrl(kind, pos, 1)) EXCEPT
                        !.className = <<"s","i","t","e","-","L","O","G","O"," ","b","i","g">>]>>
    [] kind = 4 -> <<[Img(0, ImageUrl(kind, pos, 1)) EXCEPT
                        !.id = <<"m","a","i","n","L","o","g","o">>]>>
    [] kind = 5 -> <<[Img(0, ImageUrl(kind, pos, 1)) EXCEPT
                        !.className = <<"B","r","a","n","d","-","i","m","g">>]>>
    [] kind = 6 -> <<[Box(L_div) EXCEPT !.className = <<"l","o","g","o"," ","d","a","r","k">>],
                     Img(1, ImageUrl(kind, pos, 1))>>
    [] kind = 7 -> <<[Box(L_div) EXCEPT !.id = L_logo], Img(1, ImageUrl(kind, pos, 1))>>
    [] kind = 8 -> <<[Box(L_div) EXCEPT
                        !.className = <<"b","i","g","l","o","g","o","b","o","x">>],
                     Img(1, ImageUrl(kind, pos, 1))>>
    [] kind = 9 -> <<Box(L_header), Img(1, ImageUrl(kind, pos, 1)),
                     Img(1, ImageUrl(kind, pos, 2))>>
    [] kind = 10 -> <<Box(L_nav), Img(1, ImageUrl(kind, pos, 1))>>
    [] kind = 11 -> <<[Box(L_a) EXCEPT !.href = <<"/">>], Img(1, ImageUrl(kind, pos, 1))>>
    [] kind = 12 -> <<[Box(L_a) EXCEPT !.href = <<".", "/">>],
                      Img(1, ImageUrl(kind, pos, 1))>>
    [] kind = 13 -> <<[Svg(0, pos) EXCEPT
                         !.className = <<"L","o","g","o","-","m","a","r","k">>]>>
    [] kind = 14 -> <<[Box(L_div) EXCEPT !.className = L_logo], Svg(1, pos)>>
    [] kind = 15 -> <<[Box(L_div) EXCEPT !.id = L_logo], Svg(1, pos)>>
    [] kind = 16 -> <<Box(L_header), Svg(1, pos)>>
    [] kind = 17 -> <<Box(L_nav), Svg(1, pos)>>
    [] kind = 18 -> <<Img(0, ImageUrl(kind, pos, 1))>>
    [] kind = 19 -> <<[ImgWithoutSrc(0) EXCEPT !.alt = L_logo]>>
    [] kind = 20 -> <<Box(L_header), ImgWithoutSrc(1)>>
    [] kind = 21 -> <<Svg(0, pos)>>
    [] kind = 22 -> <<Box(L_header), Box(L_div), Box(L_span), Img(2, ImageUrl(kind, pos, 1)),
                      Img(2, ImageUrl(kind, pos, 2))>>
    [] kind = 23 -> <<[Box(L_div) EXCEPT !.className = <<"L","O","G","O">>],
                      Img(1, ImageUrl(kind, pos, 1))>>
    [] kind = 24 -> <<[Box(L_a) EXCEPT !.href = <<"/","h","o","m","e">>],
                      Img(1, ImageUrl(kind, pos, 1))>>
    [] kind = 25 -> <<[Box(L_div) EXCEPT !.id = <<"h","e","r","o">>,
                         !.backgroundImage = <<"u","r","l","(",L_quote,"i","m","g","/","b","g",".","p","n","g",L_quote,")">>]>>
    [] kind = 26 -> <<[Box(L_div) EXCEPT !.className = <<"b","a","n","n","e","r"," ","w","i","d","e">>,
                         !.backgroundImage = <<"u","r","l","(","h","t","t","p","s",":","/","/","s","i","t","e",".","t","e","s","t","/","s","h","o","p","/","i","m","g","/","b","g",".","p","n","g",")">>]>>
    [] kind = 27 -> <<[Box(L_div) EXCEPT !.backgroundImage = GradientOnly]>>
    [] kind = 28 -> <<[Box(L_div) EXCEPT !.backgroundImage = GradientOverImage]>>
    [] kind = 29 -> <<[Box(L_div) EXCEPT
                         !.backgroundImage = <<"u","r","l","(","d","a","t","a",":","i","m","a","g","e","/","p","n","g",";","b","a","s","e","6","4",",","A","A","A","A",")">>]>>
    [] kind = 30 -> <<[Box(L_div) EXCEPT
                         !.backgroundImage = <<"u","r","l","(","'","/","i","m","g","/","g","r","a","d","i","e","n","t","-","b","g",".","p","n","g","'",")">>]>>
    [] kind = 31 -> <<SizedSvg(pos, 30, 30)>>
    [] kind = 32 -> <<SizedSvg(pos, 30, 200)>>
    [] kind = 33 -> <<SizedSvg(pos, 50, 50)>>
    [] kind = 34 -> <<SizedSvg(pos, 200, 49)>>
    [] kind = 35 -> <<SizedImg(ImageUrl(kind, pos, 1), 5, 5)>>
    [] kind = 36 -> <<SizedImg(ImageUrl(kind, pos, 1), 20, 20)>>
    [] kind = 37 -> <<SizedImg(ImageUrl(kind, pos, 1), 9, 20)>>
    [] kind = 38 -> <<SizedImg(ImageUrl(kind, pos, 1), 10, 10)>>
    [] kind = 39 -> <<SizedImg(DataUri(MinDataUriLength - 1), 20, 20)>>
    [] kind = 40 -> <<SizedImg(DataUri(MinDataUriLength), 20, 20)>>
    [] kind = 41 -> <<SizedImg(ImageUrl(kind, pos, 1), 20, 9)>>
    [] OTHER -> IF kind = 0 THEN <<>> ELSE <<Box(L_div)>>

\* the elements of the groups one after the other
ImageDocument(kinds) ==
  [location |-> L_location,
   elements |->
     forEach(<<>>, [pos \in 1..Len(kinds) |-> pos],
             LAMBDA els, pos :
               els \o [i \in 1..Len(Item(kinds[pos], pos)) |->
                         [Item(kinds[pos], pos)[i] EXCEPT
                            !.parent = IF @ = 0 THEN 0 ELSE @ + Len(els)]])]

\* documents of three groups with a background image each
BackgroundKinds == {25, 26, 28}

ImageDocs ==
  {ImageDocument(<<k1, k2>>) : k1, k2 \in 0..ItemKinds}
    \cup {ImageDocument(<<k1, k2, k3>>) : k1, k2, k3 \in BackgroundKinds}

(***************************************************************************)
(* SpecImage: ImageAnalyzer.analyze() run once on any of the documents     *)
(***************************************************************************)
ImageIdle ==
  /\ imgResult = NullObject
  /\ imgDone = FALSE

InitImage ==
  /\ imgDoc \in ImageDocs
  /\ ImageIdle
  /\ ColorUnused
  /\ TypoUnused
  /\ ContentUnused
  /\ PopupUnused
  /\ ReportUnused

AnalyzeImages ==
  /\ ~imgDone
  /\ imgResult' = ImageAnalyzer_analyze(imgDoc)
  /\ imgDone' = TRUE
  /\ UNCHANGED <<imgDoc, colorVars, typoVars, contentVars, popupVars, reportVars>>

NextImage == AnalyzeImages

SpecImage == InitImage /\ [][NextImage]_vars

(***************************************************************************)
(* Claims on ImageAnalyzer                                                 *)
(***************************************************************************)
\* the index of the element a selector list picks: the first in document
\* order that it matches, 0 without any
PickIndex(doc, selectors) ==
  IF selectAll(doc, selectors) = {} THEN 0 ELSE Minimum(selectAll(doc, selectors))

\* a selector of the raster tier, or the fallback, has a match: the image it
\* picks has a source
HasImageMatch(doc, selectors) ==
  /\ PickIndex(doc, selectors) # 0
  /\ doc.elements[PickIndex(doc, selectors)].src # <<>>

\* a selector of the inline-SVG tier has a match
HasSvgMatch(doc, selectors) == PickIndex(doc, selectors) # 0

RasterMatches(doc) ==
  {s \in 1..Len(logoSelectors) : HasImageMatch(doc, <<logoSelectors[s]>>)}

SvgMatches(doc) ==
  {s \in 1..Len(svgLogoSelectors) : HasSvgMatch(doc, <<svgLogoSelectors[s]>>)}

C9_WitnessSvg ==
  /\ imgDone
  /\ RasterMatches(imgDoc) = {}
  /\ \E i \in 1..Len(imgDoc.elements) : imgDoc.elements[i].tag = L_img
  /\ imgResult.logo # NullObject
  /\ imgResult.logo.type = L_svg

\* images and inline SVGs that no selector matches: null
C9_WitnessNull ==
  /\ imgDone
  /\ \E i, j \in 1..Len(imgDoc.elements) :
       imgDoc.elements[i].tag = L_img /\ imgDoc.elements[j].tag = L_svg
  /\ imgResult.logo = NullObject

\* the indexes of the svg elements of the document
SvgIndexes(doc) == {i \in 1..Len(doc.elements) : doc.elements[i].tag = L_svg}

\* C12: getInlineSvgs lists the svg elements whose bounding box is at least
\* 5 px wide and at least 5 px high, and no svg that is smaller than 5 px in
\* either dimension.
C12_InlineSvgs ==
  imgDone =>
    imgResult.svgs
      = forEach(<<>>,
                elementsAt(imgDoc, {i \in SvgIndexes(imgDoc) :
                                      /\ imgDoc.elements[i].rect.width >= 10 * MinSvgSize
                                      /\ imgDoc.elements[i].rect.height >= 10 * MinSvgSize}),
                LAMBDA svgs, svg : Append(svgs, getSvgInfo(svg, FALSE)))

\* the img element at index i is to be listed: it has a src, is rendered at
\* least 10 px wide and high, and its src is no data URI under 100 characters
Listed(doc, i) ==
  /\ doc.elements[i].tag = L_img
  /\ doc.elements[i].hasSrc
  /\ doc.elements[i].width >= MinImageSize
  /\ doc.elements[i].height >= MinImageSize
  /\ ~(startsWith(doc.elements[i].src, L_data)
        /\ Len(doc.elements[i].src) < MinDataUriLength)

\* C13: getAllImages contains a record for an img element if and only if
\* the element has a src, its rendered width and height are both at least
\* 10 px and its src is not a data URI shorter than 100 characters; it has
\* one record for each such element and no other record.
C13_AllImages ==
  imgDone =>
    /\ \A i \in 1..Len(imgDoc.elements) :
         imgDoc.elements[i].tag = L_img =>
           (Listed(imgDoc, i)
              <=> \E k \in 1..Len(imgResult.all) :
                    imgResult.all[k] = getImageInfo(imgDoc.elements[i]))
    /\ Len(imgResult.all)
         = Cardinality({i \in 1..Len(imgDoc.elements) : Listed(imgDoc, i)})

\* a 5x5 image is left out next to a 20x20 image that is listed
C13_Witness ==
  /\ imgDone
  /\ \E i, j \in 1..Len(imgDoc.elements) :
       /\ imgDoc.elements[i].hasSrc /\ imgDoc.elements[i].width = 5
       /\ imgDoc.elements[i].height = 5
       /\ imgDoc.elements[j].hasSrc /\ imgDoc.elements[j].width = 20
       /\ imgDoc.elements[j].height = 20
       /\ ~startsWith(imgDoc.elements[j].src, L_data)
  /\ Len(imgResult.all) = 1
  /\ imgResult.all[1].width = 20

\* a data URI of 99 characters is left out, one of 100 is listed
C13_WitnessData ==
  /\ imgDone
  /\ \E i, j \in 1..Len(imgDoc.elements) :
       /\ imgDoc.elements[i].src = DataUri(MinDataUriLength - 1)
       /\ imgDoc.elements[j].src = DataUri(MinDataUriLength)
  /\ Len(imgResult.all) = 1
  /\ imgResult.all[1].url = DataUri(MinDataUriLength)

\* the records pushed for the elements in document order, before the
\* duplicates are removed
backgroundRecords(doc) ==
  forEach(<<>>, doc.elements,
          LAMBDA backgrounds, element : addBackground(doc, backgrounds, element))

\* the index of the first record with the URL
FirstWithUrl(records, url) == Minimum({c \in 1..Len(records) : records[c].url = url})

\* C14: getBackgroundImages returns no two records with the same resolved
\* absolute URL; for each URL exactly one record is kept, that of the first
\* element in document order, and the records are in first-seen order.
C14_BackgroundsUnique ==
  imgDone =>
    LET records == backgroundRecords(imgDoc)
        kept == imgResult.backgrounds
    IN  /\ \A k, l \in 1..Len(kept) : kept[k].url = kept[l].url => k = l
        /\ \A c \in 1..Len(records) : \E k \in 1..Len(kept) : kept[k].url = records[c].url
        /\ \A k \in 1..Len(kept) :
             /\ \E c \in 1..Len(records) : records[c].url = kept[k].url
             /\ kept[k] = records[FirstWithUrl(records, kept[k].url)]
        /\ \A k, l \in 1..Len(kept) :
             k < l => FirstWithUrl(records, kept[k].url) < FirstWithUrl(records, kept[l].url)

\* two elements name the same image, one by a relative and one by an
\* absolute URL; the record of the first, a different element, is kept
C14_Witness ==
  /\ imgDone
  /\ Len(backgroundRecords(imgDoc)) = 2
  /\ backgroundRecords(imgDoc)[1].url = backgroundRecords(imgDoc)[2].url
  /\ backgroundRecords(imgDoc)[1].element # backgroundRecords(imgDoc)[2].element
  /\ imgResult.backgrounds = <<backgroundRecords(imgDoc)[1]>>

\* the element may be reported: its background-image value has a url()
\* token, does not contain "gradient", and the URL is no data: URI
Reportable(element) ==
  /\ matchUrl(element.backgroundImage) # Null
  /\ ~includes(element.backgroundImage, L_gradient)
  /\ ~startsWith(matchUrl(element.backgroundImage), L_data)

\* C15: every record of getBackgroundImages belongs to an element whose
\* computed background-image value does not contain "gradient" and whose
\* URL is no data: URI; an element with a gradient in its value, or with a
\* data: URI, yields no record.
C15_NoGradient ==
  imgDone =>
    \A k \in 1..Len(imgResult.backgrounds) :
      \E i \in 1..Len(imgDoc.elements) :
        /\ Reportable(imgDoc.elements[i])
        /\ imgResult.backgrounds[k]
             = [url |-> resolveUrl(matchUrl(imgDoc.elements[i].backgroundImage),
                                   imgDoc.location),
                element |-> getElementSelector(imgDoc.elements[i])]

(***************************************************************************)
(* The content script (src/popup/popup.js): the message listener,          *)
(* runAnalysis and waitForAnalyzers.                                       *)
(*                                                                         *)
(* Time is Date.now() in milliseconds since the script started. A message  *)
(* text is the sequence of the pieces it is concatenated from; accented    *)
(* letters are written without accent.                                     *)
(***************************************************************************)
Timeout == 5000
Interval == 100

Analyzers == {"ColorAnalyzer", "TypographyAnalyzer", "ImageAnalyzer"}

L_timeoutMessage == <<"Elemzok betoltese idotullepes">>
L_analysisFailed == <<"Hiba tortent az oldal elemzese soran: ">>

\* n in decimal, with leading zeros up to the width
padStart(n, width) ==
  Bind(numberToString(n), LAMBDA digits :
    [i \in 1..(Max2(width, Len(digits)) - Len(digits)) |-> "0"] \o digits)

\* new Date(ms).toISOString(), within the first day
toISOString(ms) ==
  <<"1","9","7","0","-","0","1","-","0","1","T">>
    \o padStart(ms \div 3600000, 2) \o <<":">>
    \o padStart((ms \div 60000) % 60, 2) \o <<":">>
    \o padStart((ms \div 1000) % 60, 2) \o <<".">>
    \o padStart(ms % 1000, 3) \o <<"Z">>

\* the request of a message, before the listener has run
NewRequest(action, time) ==
  [action |-> action, startTime |-> time, polls |-> 0, timer |-> <<>>,
   settled |-> <<>>, responses |-> <<>>]

\* mutant: the timeout is reached as soon as it has elapsed
checkAtTimeout(request, present, time) ==
  IF Analyzers \subseteq present
  THEN [request EXCEPT !.polls = @ + 1, !.timer = <<>>, !.settled = @ \o <<"resolved">>]
  ELSE IF time - request.startTime >= Timeout
  THEN [request EXCEPT !.polls = @ + 1, !.timer = <<>>, !.settled = @ \o <<"rejected">>]
  ELSE [request EXCEPT !.polls = @ + 1, !.timer = <<time + Interval>>]

\* check() of waitForAnalyzers: resolve, reject or poll again after Interval
check(request, present, time) ==
  IF Analyzers \subseteq present
  THEN [request EXCEPT !.polls = @ + 1, !.timer = <<>>, !.settled = @ \o <<"resolved">>]
  ELSE IF time - request.startTime > Timeout
  THEN [request EXCEPT !.polls = @ + 1, !.timer = <<>>, !.settled = @ \o <<"rejected">>]
  ELSE [request EXCEPT !.polls = @ + 1, !.timer = <<time + Interval>>]

\* the pages the script runs in: one that the analyzers handle, and one
\* without body, where TypographyAnalyzer.analyze() throws
ContentPages ==
  << [href |-> L_location,
      color |-> ColorDocument(0, 1, 0, 0, 0, 0, BodyVariants[3], HtmlVariants[1]),
      typo |-> Page(TRUE, HeadingElements({2}, FALSE)),
      image |-> ImageDocument(<<18, 0>>)],
     [href |-> L_location,
      color |-> ColorDocument(0, 0, 0, 0, 0, 0, BodyVariants[1], HtmlVariants[1]),
      typo |-> Page(FALSE, <<>>),
      image |-> ImageDocument(<<0, 0>>)] >>

\* window.ColorAnalyzer.analyze(), window.TypographyAnalyzer.analyze() and
\* window.ImageAnalyzer.analyze() on a page
analyzerResults(page) ==
  [colors |-> ColorAnalyzer_analyze(page.color),
   typography |-> TypographyAnalyzer_analyze(page.typo),
   images |-> ImageAnalyzer_analyze(page.image)]

\* mutant: what the analyzers before the failing one returned is passed on
runAnalysisPartial(outcome, page, results, time) ==
  IF outcome = "rejected" THEN Thrown(L_analysisFailed \o L_timeoutMessage)
  ELSE [url |-> page.href, timestamp |-> toISOString(time),
        colors |-> results.colors,
        typography |-> IF isThrown(results.typography) THEN NullObject
                       ELSE results.typography,
        images |-> results.images]

\* runAnalysis after the wait has settled: the envelope, or the exception
\* raised in place of the one caught
runAnalysis(outcome, page, results, time) ==
  IF outcome = "rejected" THEN Thrown(L_analysisFailed \o L_timeoutMessage)
  ELSE IF isThrown(results.typography)
  THEN Thrown(L_analysisFailed \o <<results.typography.message>>)
  ELSE [url |-> page.href, timestamp |-> toISOString(time),
        colors |-> results.colors, typography |-> results.typography,
        images |-> results.images]

\* the listener's .then and .catch: sendResponse(result), or
\* sendResponse({ error: error.message })
sendResponse(result) ==
  IF isThrown(result) THEN [error |-> result.message] ELSE result

\* what follows a run of check() before the next task: once the wait has
\* settled, runAnalysis goes on and the listener responds
afterCheck(request, page, results, time) ==
  IF request.timer # <<>> THEN request
  ELSE [request EXCEPT
          !.responses =
             @ \o <<sendResponse(runAnalysis(request.settled[1], page, results, time))>>]

MaxRequests == 2      \* messages received
MaxLate == 0          \* intervals that pass while a timer is due

(***************************************************************************)
(* SpecContent: messages arrive, analyzer scripts get loaded, time passes  *)
(* and timers fire                                                         *)
(***************************************************************************)
InitContent ==
  /\ contentPage \in DOMAIN ContentPages
  /\ analysis = analyzerResults(ContentPages[contentPage])
  /\ now = 0
  /\ loaded = {}
  /\ requests = <<>>
  /\ late = 0
  /\ ColorUnused
  /\ TypoUnused
  /\ ImageUnused
  /\ PopupUnused
  /\ ReportUnused

\* chrome.runtime.onMessage listener, up to the end of the task: the first
\* check() runs inside the call of waitForAnalyzers. The messages arrive
\* within the first interval.
OnMessage(action) ==
  /\ Len(requests) < MaxRequests
  /\ now < Interval
  /\ requests' =
       Append(requests,
              IF action = "analyze"
              THEN afterCheck(check(NewRequest(action, now), loaded, now),
                              ContentPages[contentPage], analysis, now)
              ELSE NewRequest(action, now))
  /\ UNCHANGED <<contentPage, analysis, now, loaded, late, colorVars, typoVars, imgVars, popupVars, reportVars>>

\* a timer that is set and due
TimerDue(r) ==
  /\ r \in 1..Len(requests)
  /\ requests[r].timer # <<>>
  /\ now >= requests[r].timer[1]

\* setTimeout(check, 100) fires
TimerFires(r) ==
  /\ TimerDue(r)
  /\ requests' =
       [requests EXCEPT
          ![r] = afterCheck(check(@, loaded, now), ContentPages[contentPage], analysis, now)]
  /\ UNCHANGED <<contentPage, analysis, now, loaded, late, colorVars, typoVars, imgVars, popupVars, reportVars>>

\* an analyzer script defines its global
Load(analyzer) ==
  /\ analyzer \notin loaded
  /\ loaded' = loaded \cup {analyzer}
  /\ UNCHANGED <<contentPage, analysis, now, requests, late, colorVars, typoVars, imgVars, popupVars, reportVars>>

\* time passes while a timer is set; a timer that is due is kept waiting
\* for MaxLate intervals in all
Tick ==
  /\ (\E r \in 1..Len(requests) : TimerDue(r)) => late < MaxLate
  /\ \E r \in 1..Len(requests) : requests[r].timer # <<>>
  /\ now' = now + Interval
  /\ late' = IF \E r \in 1..Len(requests) : TimerDue(r) THEN late + 1 ELSE late
  /\ UNCHANGED <<contentPage, analysis, loaded, requests, colorVars, typoVars, imgVars, popupVars, reportVars>>

NextContent ==
  \/ \E action \in {"analyze", "ping"} : OnMessage(action)
  \/ \E r \in 1..Len(requests) : TimerFires(r)
  \/ \E analyzer \in Analyzers : Load(analyzer)
  \/ Tick

SpecContent == InitContent /\ [][NextContent]_vars

\* the event loop runs the timers that are due, and time goes on
SpecContentLive ==
  /\ SpecContent
  /\ WF_vars(Tick)
  /\ WF_vars(\E r \in 1..Len(requests) : TimerFires(r))

(***************************************************************************)
(* Claims on the content script                                            *)
(***************************************************************************)
EnvelopeFields == {"url", "timestamp", "colors", "typography", "images"}

AnalyzeRequests == {r \in 1..Len(requests) : requests[r].action = "analyze"}

AnalyzerThrows == isThrown(analysis.typography)

C6_ResponseShape ==
  \A r \in AnalyzeRequests :
    /\ Len(requests[r].responses) <= 1
    /\ requests[r].settled # <<>> => Len(requests[r].responses) = 1
    /\ \A i \in 1..Len(requests[r].responses) :
         LET response == requests[r].responses[i]
         IN  /\ \/ DOMAIN response = EnvelopeFields
                \/ DOMAIN response = {"error"}
             /\ (requests[r].settled[1] = "rejected" \/ AnalyzerThrows)
                  <=> DOMAIN response = {"error"}
             /\ DOMAIN response = {"error"} =>
                  /\ Len(response.error) = 2
                  /\ response.error[1] = L_analysisFailed[1]
             /\ DOMAIN response = EnvelopeFields =>
                  /\ response.url = ContentPages[contentPage].href
                  /\ response.colors = analysis.colors
                  /\ response.typography = analysis.typography
                  /\ response.images = analysis.images

\* C6: every 'analyze' message gets exactly one response, which is either
\* the complete envelope (url, timestamp, colors, typography, images) or an
\* object with an error text only; it is the latter when the analyzers are
\* not there in time or one of them throws
C6_OneResponse ==
  /\ []C6_ResponseShape
  /\ <>[](\A r \in AnalyzeRequests : Len(requests[r].responses) = 1)

\* the page makes an analyzer throw, the wait resolved after several polls,
\* and the response carries the error only
C6_Witness ==
  \E r \in AnalyzeRequests :
    /\ AnalyzerThrows
    /\ requests[r].settled = <<"resolved">>
    /\ requests[r].polls > 1
    /\ Len(requests[r].responses) = 1
    /\ DOMAIN requests[r].responses[1] = {"error"}

\* two messages answered, one with the envelope
C6_WitnessEnvelope ==
  /\ AnalyzeRequests = {1, 2}
  /\ \A r \in AnalyzeRequests : Len(requests[r].responses) = 1
  /\ DOMAIN requests[2].responses[1] = EnvelopeFields
  /\ requests[2].polls > 1

\* the analyzers are not there in time
C6_WitnessTimeout ==
  \E r \in AnalyzeRequests :
    /\ requests[r].settled = <<"rejected">>
    /\ Len(requests[r].responses) = 1
    /\ requests[r].responses[1].error = L_analysisFailed \o L_timeoutMessage

\* polls of one wait are at least Interval apart, the first at elapsed time
\* 0 and the last but one at most at Timeout
MaxPolls == Timeout \div Interval + 2

C7_Bounded ==
  \A r \in AnalyzeRequests :
    /\ requests[r].polls <= MaxPolls
    /\ Len(requests[r].settled) <= 1
    /\ requests[r].timer # <<>> => requests[r].settled = <<>>

\* what a poll does, for every request that is polled in a step
C7_Poll ==
  \A r \in 1..Len(requests') :
    LET before == IF r <= Len(requests) THEN requests[r]
                  ELSE NewRequest(requests'[r].action, now)
        after == requests'[r]
    IN  after.polls # before.polls =>
          /\ after.polls = before.polls + 1
          /\ before.settled = <<>>
          /\ IF Analyzers \subseteq loaded
             THEN after.settled = <<"resolved">> /\ after.timer = <<>>
             ELSE IF now - after.startTime > Timeout
             THEN after.settled = <<"rejected">> /\ after.timer = <<>>
             ELSE after.settled = <<>> /\ after.timer = <<now + Interval>>

\* C7: the wait settles after a bounded number of polls: it resolves at the
\* first poll that finds the three analyzers, rejects at the first other
\* poll after more than Timeout, polls again after Interval otherwise, is
\* never polled after it has settled, and settles once
C7_WaitSettles ==
  /\ []C7_Bounded
  /\ [][C7_Poll]_vars
  /\ <>[](\A r \in AnalyzeRequests : Len(requests[r].settled) = 1)

\* the wait is rejected at the last poll there can be
C7_Witness ==
  \E r \in AnalyzeRequests :
    /\ requests[r].settled = <<"rejected">>
    /\ requests[r].polls = MaxPolls

\* the analyzers are found by a poll after more than Timeout
C7_WitnessLate ==
  \E r \in AnalyzeRequests :
    /\ requests[r].settled = <<"resolved">>
    /\ requests[r].polls > 1
    /\ now - requests[r].startTime > Timeout

(***************************************************************************)
(* The popup (src/popup/popup.js): handleAnalyze asks the content script   *)
(* of the active tab for an analysis and renders the response. Of what is  *)
(* rendered the model keeps the logo preview; every analysis runs the      *)
(* analyzers again on the page, which does not change meanwhile.           *)
(***************************************************************************)
L_blob == <<"b","l","o","b",":">>

\* the object URL that URL.createObjectURL returns in the page for the
\* serial-th blob: each call returns a URL not returned before
objectUrl(serial) ==
  L_blob \o originOf(L_location) \o <<"/">> \o numberToString(serial)

\* mutant of freshColors: the maps of the previous call are used again
keptColors(previous) == IF previous = NullObject THEN EmptyMaps ELSE previous

\* const colors = { background: new Map(), ... } in ColorAnalyzer.analyze():
\* the maps of a call, whatever the previous call has left
freshColors(previous) == EmptyMaps

\* the maps after the two passes of a call of ColorAnalyzer.analyze()
colorsOfCall(doc, previous) ==
  analyzeKeyElements(analyzeStyleSheets(freshColors(previous), doc.styleSheets), doc)

\* ImageAnalyzer.analyze() in the page: the URL of an inline-SVG logo is
\* the object URL created by this call
imagesOfCall(doc, serial) ==
  Bind(ImageAnalyzer_analyze(doc), LAMBDA images :
    IF images.logo # NullObject /\ images.logo.type = L_svg
    THEN [images EXCEPT !.logo.url = objectUrl(serial)]
    ELSE images)

\* the three analyze() calls of runAnalysis, in their order; the call after
\* one that throws is not made
resultsOfCall(page, maps, serial) ==
  Bind(TypographyAnalyzer_analyze(page.typo), LAMBDA typography :
    [colors |-> buildColorPalette(maps),
     typography |-> typography,
     images |-> IF isThrown(typography) THEN NullObject
                ELSE imagesOfCall(page.image, serial)])

\* the object URLs the calls have created
createdUrls(results) ==
  IF results.images # NullObject /\ results.images.logo # NullObject
       /\ results.images.logo.type = L_svg
  THEN {results.images.logo.url}
  ELSE {}

\* renderImages(images), the content of logoContainer: the preview image
renderImages(images) ==
  IF images = NullObject THEN <<>>
  ELSE IF images.logo # NullObject THEN <<[src |-> images.logo.url]>>
  ELSE <<>>

(***************************************************************************)
(* generateReport (src/popup/popup.js). A text is here a sequence of       *)
(* pieces, "\n" a piece of its own; the literals are written in one piece, *)
(* without accents and pictographs. A field of data that may be missing is *)
(* <<>> or <<value>>.                                                      *)
(***************************************************************************)
L_reportTitle == <<"DESIGN SYSTEM OSSZEFOGLALO">>
divider == <<"=======================================">>
subDivider == <<"---------------------------------------">>
L_colorsTitle == <<"SZINPALETTA">>
L_typographyTitle == <<"TIPOGRAFIA">>
L_imagesTitle == <<"KEPEK & LOGOK">>
L_noColors == <<"Nincs szin az oldalon">>
L_noTypography == <<"Nincs tipografia informacio">>
L_noImages == <<"Nincs kep az oldalon">>
L_generated == <<"Generalva: Design System Analyzer v1.0.0">>
L_questionMark == <<"?">>

categoryLabels ==
  [Primary |-> "Primary", Accent |-> "Accent", Background |-> "Background",
   Foreground |-> "Foreground", Border |-> "Border"]

getCategoryLabel(category) ==
  IF category \in DOMAIN categoryLabels THEN categoryLabels[category] ELSE category

weightLabels ==
  [w \in {"100", "200", "300", "400", "500", "600", "700", "800", "900"} |->
     CASE w = "100" -> "100 (Thin)"
       [] w = "200" -> "200 (Extra Light)"
       [] w = "300" -> "300 (Light)"
       [] w = "400" -> "400 (Regular)"
       [] w = "500" -> "500 (Medium)"
       [] w = "600" -> "600 (Semibold)"
       [] w = "700" -> "700 (Bold)"
       [] w = "800" -> "800 (Extra Bold)"
       [] OTHER -> "900 (Black)"]

getWeightLabel(weight) ==
  IF weight \in DOMAIN weightLabels THEN weightLabels[weight] ELSE weight

\* new Date(timestamp).toLocaleString('hu-HU') of an ISO timestamp, in UTC
toLocaleString(iso) ==
  SubSeq(iso, 1, 4) \o <<".", " ">> \o SubSeq(iso, 6, 7) \o <<".", " ">>
    \o SubSeq(iso, 9, 10) \o <<".", " ">>
    \o (IF iso[12] = "0" THEN <<iso[13]>> ELSE SubSeq(iso, 12, 13))
    \o SubSeq(iso, 14, 19)

\* ${n || '?'} for a number
numberOrUnknown(n) == IF n # 0 THEN numberToString(n) ELSE L_questionMark

\* ${width || '?'} for the width or height getSvgInfo returns
dimensionOrUnknown(value) ==
  IF value = NullObject THEN L_questionMark ELSE attributeText(value)

colorLines(data) ==
  IF data.colors # <<>> /\ Len(data.colors[1]) > 0
  THEN [i \in 1..Len(data.colors[1]) |->
          data.colors[1][i].hex \o <<" - ", getCategoryLabel(data.colors[1][i].category)>>]
  ELSE <<L_noColors>>

styleLine(style) ==
  style.fontFamily \o <<", ">> \o style.fontSize \o <<", ", getWeightLabel(style.fontWeight),
                                                     ", ">>
    \o style.color \o <<", line-height: ">> \o style.lineHeight

\* the body of ['h1', ...].forEach(tag => ...)
headingLines(headings, lines, tag) ==
  IF \E i \in 1..Len(headings.entries) : headings.entries[i].key = tag
  THEN Bind(headings.entries[CHOOSE i \in 1..Len(headings.entries) :
                               headings.entries[i].key = tag].value,
            LAMBDA h :
         Append(lines, <<" ", " ">> \o toUpperCase(tag) \o <<": ">> \o styleLine(h))
           \o (IF h.sample # <<>>
               THEN << <<"      ", L_quote>> \o h.sample \o <<L_quote>> >>
               ELSE <<>>))
  ELSE lines

typographyLines(data) ==
  IF data.typography # <<>> /\ data.typography[1] # NullObject
  THEN Bind(data.typography[1], LAMBDA typography :
         (IF Len(typography.fontFamilies) > 0
          THEN << <<"Font Csaladok:">> >>
                 \o [i \in 1..Len(typography.fontFamilies) |->
                       <<"  - ">> \o typography.fontFamilies[i].name \o <<" (">>
                         \o numberToString(typography.fontFamilies[i].usage)
                         \o <<"% hasznalat)">>]
                 \o << <<>> >>
          ELSE <<>>)
         \o (IF typography.headings # NullObject
             THEN forEach(<< <<"Heading Stilusok:">> >>, headingTags,
                          LAMBDA lines, tag : headingLines(typography.headings, lines, tag))
                    \o << <<>> >>
             ELSE <<>>)
         \o (IF typography.body # NullObject
             THEN << <<"Body Szoveg:">>, <<" ", " ">> \o styleLine(typography.body), <<>> >>
             ELSE <<>>))
  ELSE <<L_noTypography, <<>> >>

\* the size of the logo: numbers for an image, getSvgInfo's values for an svg
logoSize(logo) ==
  IF logo.type = L_svg
  THEN dimensionOrUnknown(logo.width) \o <<"x">> \o dimensionOrUnknown(logo.height)
  ELSE numberOrUnknown(logo.width) \o <<"x">> \o numberOrUnknown(logo.height)

imageLines(data) ==
  IF data.images # <<>> /\ data.images[1] # NullObject
  THEN Bind(data.images[1], LAMBDA images :
         (IF images.logo # NullObject
          THEN << <<"Logo: ">> \o images.logo.url,
                  <<"  Meret: ">> \o logoSize(images.logo) \o <<"px">>, <<>> >>
          ELSE <<>>)
         \o (IF Len(images.all) > 0
             THEN forEach(<< <<"Kepek (">> \o numberToString(Len(images.all)) \o <<" db):">> >>,
                          images.all,
                          LAMBDA lines, img :
                            lines \o << <<"  - ">> \o img.url,
                                        <<"    Meret: ">> \o numberOrUnknown(img.width)
                                          \o <<"x">> \o numberOrUnknown(img.height)
                                          \o <<"px">> >>)
                    \o << <<>> >>
             ELSE <<>>)
         \o (IF Len(images.svgs) > 0
             THEN << <<"Inline SVG-k (">> \o numberToString(Len(images.svgs))
                       \o <<" db):">> >>
                    \o [i \in 1..Len(images.svgs) |->
                          <<"  - svg-">> \o numberToString(i) \o <<".svg (">>
                            \o dimensionOrUnknown(images.svgs[i].width) \o <<"x">>
                            \o dimensionOrUnknown(images.svgs[i].height) \o <<"px)">>]
                    \o << <<>> >>
             ELSE <<>>)
         \o (IF Len(images.backgrounds) > 0
             THEN forEach(<< <<"Hatterkepek (">> \o numberToString(Len(images.backgrounds))
                             \o <<" db):">> >>,
                          images.backgrounds,
                          LAMBDA lines, bg :
                            lines \o << <<"  - ">> \o bg.url,
                                        <<"    Element: ">> \o bg.element >>)
                    \o << <<>> >>
             ELSE <<>>))
  ELSE <<L_noImages, <<>> >>

generateReport(data) ==
  join(<< L_reportTitle, divider, <<"Oldal: ">> \o data.url,
          <<"Elemzes datuma: ">> \o toLocaleString(data.timestamp), <<>>,
          L_colorsTitle, subDivider >>
         \o colorLines(data) \o << <<>> >>
         \o <<L_typographyTitle, subDivider>> \o typographyLines(data)
         \o <<L_imagesTitle, subDivider>> \o imageLines(data)
         \o <<divider, L_generated>>,
       <<"\n">>)

(***************************************************************************)
(* SpecReport: generateReport run on the data of an analysis, and on data  *)
(* that lack a part                                                        *)
(***************************************************************************)
(***************************************************************************)
(* handleAnalyze, showError and handleExport (src/popup/popup.js)          *)
(***************************************************************************)
L_noTab == <<"Nem talalhato aktiv tab">>
L_chromePage == <<"Chrome belso oldalakat nem lehet elemezni">>
L_analysisError == <<"Hiba tortent az elemzes soran">>
\* the message of the exception of chrome.tabs.sendMessage when no content
\* script listens in the tab
L_noReceiver == <<"Could not establish connection. Receiving end does not exist.">>

MaxAnalyses == 3
MaxRunning == 2

PopupPages ==
  { [href |-> L_location, color |-> color, typo |-> typo, image |-> ImageDocument(<<k1, k2>>)] :
      color \in { EmptyColorDoc,
                  ColorDocument(0, 1, 0, 0, 0, 0, BodyVariants[3], HtmlVariants[1]),
                  ColorDocument(3, 1, 1, 1, 1, 1, BodyVariants[2], HtmlVariants[1]),
                  [ColorDocument(0, 1, 0, 0, 0, 0, BodyVariants[2], HtmlVariants[1])
                     EXCEPT !.styleSheets = <<SheetA, SheetRaises, SheetC>>] },
      typo \in { Page(FALSE, <<>>), Page(TRUE, HeadingElements({2}, FALSE)),
                 BodyPage(TRUE, <<2, 0, 0, 1>>) },
      k1 \in {13, 18, 25}, k2 \in {0, 18} }

\* the panels as the popup's document may have them when the script starts:
\* at most one of loadingState, errorState and resultsContainer is shown
InitialPanels == {"none", "loading", "error", "results"}

InitPopup ==
  /\ popupPage \in PopupPages
  /\ responses = <<>>
  /\ analysisData = NullObject
  /\ logoContainer = <<>>
  /\ \E shown \in InitialPanels :
       /\ loadingHidden = (shown # "loading")
       /\ errorState = [hidden |-> shown # "error", text |-> <<>>]
       /\ resultsHidden = (shown # "results")
  /\ analyzeBtn = [disabled |-> FALSE]
  /\ running = <<>>
  /\ objectUrls = {}
  /\ ColorUnused
  /\ TypoUnused
  /\ ImageUnused
  /\ ContentUnused
  /\ ReportUnused

\* mutant of disableButton: the button stays as it is
leaveButton(button) == button

\* analyzeBtn.disabled = true
disableButton(button) == [button EXCEPT !.disabled = TRUE]

\* finally { analyzeBtn.disabled = false }
enableButton(button) == [button EXCEPT !.disabled = FALSE]

\* mutant of showError: the text is set, the class hidden stays
setErrorText(state, message) == [state EXCEPT !.text = message]

\* showError(message) on errorState
showError(state, message) == [hidden |-> FALSE, text |-> message]

\* error.message || 'Hiba tortent az elemzes soran'
messageOrDefault(message) == IF message = <<>> THEN L_analysisError ELSE message

\* mutant of storeResponse: the response is stored before it is examined
storeFirst(data, response) == response

\* analysisData after a response has arrived: `if (response.error) throw`
\* comes before `analysisData = response`
storeResponse(data, response) ==
  IF "error" \in DOMAIN response THEN data ELSE response

\* the calls under way but for the i-th
without(calls, i) == SubSeq(calls, 1, i - 1) \o SubSeq(calls, i + 1, Len(calls))

\* a click on analyzeBtn, which a disabled button does not dispatch:
\* handleAnalyze up to `await chrome.tabs.query(...)`
ClickAnalyze ==
  /\ ~analyzeBtn.disabled
  /\ Len(running) < MaxRunning
  /\ Len(responses) < MaxAnalyses
  /\ analyzeBtn' = disableButton(analyzeBtn)
  /\ loadingHidden' = FALSE
  /\ errorState' = [errorState EXCEPT !.hidden = TRUE]
  /\ resultsHidden' = TRUE
  /\ running' = Append(running, "query")
  /\ UNCHANGED <<popupPage, responses, analysisData, logoContainer, objectUrls,
                 colorVars, typoVars, imgVars, contentVars, reportVars>>

\* the catch and finally blocks of handleAnalyze, ending the i-th call
ShowErrorAndFinish(i, message) ==
  /\ loadingHidden' = TRUE
  /\ errorState' = showError(errorState, messageOrDefault(message))
  /\ analyzeBtn' = enableButton(analyzeBtn)
  /\ running' = without(running, i)

\* chrome.tabs.query resolves: with no tab, or a tab of a chrome:// or
\* chrome-extension:// page, the error is shown and no message is sent; with
\* any other tab the message is sent
TabsQueryResolves(i, tab) ==
  /\ i \in 1..Len(running)
  /\ running[i] = "query"
  /\ IF tab = "page"
     THEN /\ running' = [running EXCEPT ![i] = "send"]
          /\ UNCHANGED <<loadingHidden, errorState, analyzeBtn>>
     ELSE ShowErrorAndFinish(i, IF tab = "none" THEN L_noTab ELSE L_chromePage)
  /\ UNCHANGED <<popupPage, responses, analysisData, logoContainer, resultsHidden,
                 objectUrls, colorVars, typoVars, imgVars, contentVars, reportVars>>

\* what an analysis of the page brings about: the maps the call leaves, the
\* object URLs it creates and the response of the content script
analysisOf(page, previous, count) ==
  Bind(colorsOfCall(page.color, previous), LAMBDA maps :
  Bind(resultsOfCall(page, maps, count + 1), LAMBDA results :
    [maps |-> maps,
     created |-> createdUrls(results),
     response |-> sendResponse(runAnalysis("resolved", page, results, 1000 * count))]))

\* chrome.tabs.sendMessage resolves: the content script has run the
\* analyzers and answered; an error response is shown, any other is stored
\* and rendered
SendMessageResolves(i) ==
  /\ i \in 1..Len(running)
  /\ running[i] = "send"
  /\ \E outcome \in {analysisOf(popupPage, colorMaps, Len(responses))} :
       /\ colorMaps' = outcome.maps
       /\ objectUrls' = objectUrls \cup outcome.created
       /\ responses' = Append(responses, outcome.response)
       /\ analysisData' = storeResponse(analysisData, outcome.response)
       /\ IF "error" \in DOMAIN outcome.response
          THEN /\ ShowErrorAndFinish(i, outcome.response.error)
               /\ UNCHANGED <<resultsHidden, logoContainer>>
          ELSE /\ logoContainer' = renderImages(outcome.response.images)
               /\ loadingHidden' = TRUE
               /\ resultsHidden' = FALSE
               /\ analyzeBtn' = enableButton(analyzeBtn)
               /\ running' = without(running, i)
               /\ UNCHANGED errorState
  /\ UNCHANGED <<popupPage, colorDoc, colorResult, colorDone, typoVars, imgVars,
                 contentVars, reportVars>>

\* chrome.tabs.sendMessage rejects, its exception with or without a message
SendMessageRejects(i, message) ==
  /\ i \in 1..Len(running)
  /\ running[i] = "send"
  /\ ShowErrorAndFinish(i, message)
  /\ UNCHANGED <<popupPage, responses, analysisData, logoContainer, resultsHidden,
                 objectUrls, colorVars, typoVars, imgVars, contentVars, reportVars>>

\* generateReport reads every field of the stored response
reportInput(data) ==
  [url |-> data.url, timestamp |-> data.timestamp, colors |-> <<data.colors>>,
   typography |-> <<data.typography>>, images |-> <<data.images>>]

\* handleExport: nothing without analysis data, else the report of the
\* stored data; the object URL of the download is revoked at once
HandleExport ==
  /\ IF analysisData = NullObject
     THEN UNCHANGED reportVars
     ELSE /\ reportData' = reportInput(analysisData)
          /\ report' = generateReport(reportInput(analysisData))
  /\ UNCHANGED <<popupVars, colorVars, typoVars, imgVars, contentVars>>

NextPopup ==
  \/ ClickAnalyze
  \/ \E i \in 1..MaxRunning, tab \in {"none", "chrome", "extension", "page"} :
       TabsQueryResolves(i, tab)
  \/ \E i \in 1..MaxRunning : SendMessageResolves(i)
  \/ \E i \in 1..MaxRunning, message \in {L_noReceiver, <<>>} : SendMessageRejects(i, message)
  \/ HandleExport

SpecPopup == InitPopup /\ [][NextPopup]_vars

\* C16: every object URL created for a logo SVG preview is released by the
\* popup once the preview is no longer displayed: an object URL that is not
\* revoked is the source of the preview in logoContainer.
C16_UrlsReleased ==
  \A url \in objectUrls : logoContainer = <<[src |-> url]>>

\* what a response carries of the analyzers' results, but for the logo
resultsIn(response) ==
  IF "error" \in DOMAIN response THEN [error |-> response.error]
  ELSE [colors |-> response.colors,
        typography |-> response.typography,
        all |-> response.images.all,
        svgs |-> response.images.svgs,
        backgrounds |-> response.images.backgrounds]

RaisesInPass(page) ==
  \/ \E i \in 1..Len(page.color.styleSheets) : page.color.styleSheets[i].access = "raises"
  \/ isThrown(analyzeBodyText(page.typo))

\* C18: an unexpected exception raised inside a pass of an analyzer leaves
\* analyze() and reaches runAnalysis, and the response is { error }; no
\* analyzer catches it and returns a result.
C18_Propagates ==
  RaisesInPass(popupPage) =>
    \A k \in 1..Len(responses) : "error" \in DOMAIN responses[k]

\* C24: analyzeBtn is disabled from the start of handleAnalyze until the
\* call has finished and is enabled again on every path that ends it; a
\* call starts only from a click on the enabled button, so at most one call
\* is under way and at most one analysis request is in flight.
C24_OneRequest ==
  /\ analyzeBtn.disabled <=> running # <<>>
  /\ Len(running) <= 1
  /\ Cardinality({i \in 1..Len(running) : running[i] = "send"}) <= 1

\* an analysis has succeeded, a later one has ended with the exception of
\* sendMessage, and the button is enabled again
C24_Witness ==
  /\ running = <<>>
  /\ ~analyzeBtn.disabled
  /\ Len(responses) >= 1
  /\ "error" \notin DOMAIN responses[1]
  /\ ~errorState.hidden
  /\ errorState.text = L_noReceiver

\* C25: analysisData changes only when a response without error arrives,
\* and then to that response: an analysis that ends in an error (no active
\* tab, a chrome:// or chrome-extension:// page, an exception of
\* sendMessage, an error response) leaves it as it was, and handleExport
\* exports the data of the last successful analysis.
C25_DataKept ==
  [][/\ analysisData' # analysisData =>
          /\ Len(responses') = Len(responses) + 1
          /\ "error" \notin DOMAIN responses'[Len(responses')]
          /\ analysisData' = responses'[Len(responses')]
     /\ (Len(running') < Len(running) /\ ~errorState'.hidden) =>
          analysisData' = analysisData
     /\ report' # report =>
          /\ analysisData # NullObject
          /\ report' = generateReport(reportInput(analysisData))]_vars

\* after a successful analysis a later one has failed on a chrome:// page;
\* the data is still that of the first and the report exported is its report
C25_Witness ==
  /\ running = <<>>
  /\ Len(responses) = 1
  /\ analysisData = responses[1]
  /\ ~errorState.hidden
  /\ errorState.text = L_chromePage
  /\ report # <<>>
  /\ report = generateReport(reportInput(responses[1]))

\* the panels that do not have the class hidden
VisiblePanels ==
  (IF loadingHidden THEN {} ELSE {"loadingState"})
    \cup (IF errorState.hidden THEN {} ELSE {"errorState"})
    \cup (IF resultsHidden THEN {} ELSE {"resultsContainer"})

\* a call of handleAnalyze has finished: it has left a response or an error text
HasFinished == Len(responses) > 0 \/ errorState.text # <<>>

\* C26: from an initial state with at most one panel shown, at most one of
\* loadingState, errorState and resultsContainer is shown in every state;
\* while a call is under way only loadingState is shown; once a call of
\* handleAnalyze has finished loadingState is hidden and exactly one of
\* errorState and resultsContainer is shown.
C26_OnePanel ==
  /\ Cardinality(VisiblePanels) <= 1
  /\ running # <<>> => VisiblePanels = {"loadingState"}
  /\ (running = <<>> /\ HasFinished) =>
       VisiblePanels \in {{"errorState"}, {"resultsContainer"}}

\* one analysis has ended without an active tab and one has succeeded; a
\* further one is waiting for its response and only loadingState is shown
C26_Witness ==
  /\ running = <<"send">>
  /\ VisiblePanels = {"loadingState"}
  /\ Len(responses) = 1
  /\ analysisData = responses[1]
  /\ errorState.text = L_noTab

(***************************************************************************)
(* handleExport on data of every shape                                     *)
(***************************************************************************)
ReportColors ==
  { <<>>, << <<>> >>,
    <<ColorAnalyzer_analyze(ColorDocument(0, 1, 0, 0, 0, 0, BodyVariants[3], HtmlVariants[1]))>>,
    <<ColorAnalyzer_analyze(ColorDocument(1, 1, 1, 1, 1, 1, BodyVariants[2], HtmlVariants[1]))>> }

ReportTypography ==
  { <<>>, <<NullObject>>,
    <<TypographyAnalyzer_analyze(Page(TRUE, HeadingElements({1, 2, 5}, FALSE)))>>,
    <<TypographyAnalyzer_analyze(Page(TRUE, <<>>))>>,
    <<TypographyAnalyzer_analyze(Page(TRUE, MinorElements(2) \o OddElements))>> }

ReportImages ==
  { <<>>, <<NullObject>> }
    \cup { <<imagesOfCall(ImageDocument(kinds), 1)>> :
             kinds \in { <<0, 0>>, <<18, 0>>, <<13, 25>>, <<21, 26>>, <<1, 32>>, <<19, 27>> } }

ReportData ==
  { [url |-> L_location, timestamp |-> toISOString(time), colors |-> colors,
     typography |-> typography, images |-> images] :
      time \in {0, 3723004}, colors \in ReportColors, typography \in ReportTypography,
      images \in ReportImages }

InitReport ==
  /\ reportData \in ReportData
  /\ report = <<>>
  /\ ColorUnused
  /\ TypoUnused
  /\ ImageUnused
  /\ ContentUnused
  /\ PopupUnused

\* handleExport: the report of the stored analysis data
GenerateReport ==
  /\ report = <<>>
  /\ report' = generateReport(reportData)
  /\ UNCHANGED <<reportData, colorVars, typoVars, imgVars, contentVars, popupVars>>

NextReport == GenerateReport

SpecReport == InitReport /\ [][NextReport]_vars

\* the lines of the report from the one after the title up to the next title,
\* or up to the end
SectionLines(lines, title, nextTitles) ==
  LET start == Minimum({i \in 1..Len(lines) : lines[i] = title})
      stops == {i \in (start + 1)..Len(lines) : lines[i] \in nextTitles}
  IN  SubSeq(lines, start + 1, IF stops = {} THEN Len(lines) ELSE Minimum(stops) - 1)

\* a part of the data is missing or has no items
NoColors(data) == data.colors = <<>> \/ Len(data.colors[1]) = 0

NoTypography(data) ==
  \/ data.typography = <<>>
  \/ data.typography[1] = NullObject
  \/ /\ Len(data.typography[1].fontFamilies) = 0
     /\ data.typography[1].headings = NullObject
     /\ data.typography[1].body = NullObject

NoImages(data) ==
  \/ data.images = <<>>
  \/ data.images[1] = NullObject
  \/ /\ data.images[1].logo = NullObject
     /\ Len(data.images[1].all) = 0
     /\ Len(data.images[1].svgs) = 0
     /\ Len(data.images[1].backgrounds) = 0

\* C8: the report is produced, and for each of colors, typography and
\* images, when the value is missing or contains no items, the section of
\* the report contains its 'none found' line.
C8_NoneFound ==
  report # <<>> =>
    LET lines == split(report, "\n")
    IN  /\ NoColors(reportData) =>
             L_noColors \in Range(SectionLines(lines, L_colorsTitle, {L_typographyTitle}))
        /\ NoTypography(reportData) =>
             L_noTypography \in Range(SectionLines(lines, L_typographyTitle, {L_imagesTitle}))
        /\ NoImages(reportData) =>
             L_noImages \in Range(SectionLines(lines, L_imagesTitle, {}))

====
